---- MODULE Spec2Model ----
(***************************************************************************)
(* A model of the RPC dispatch core (core/src/rpc/rpc_context.rs): the     *)
(* session, the session variable store, the two dispatch surfaces and the  *)
(* handlers, each handler one atomic action.  The storage engine and the   *)
(* IAM provider are external collaborators, modelled by their interface:  *)
(* every outcome the interface allows is a nondeterministic choice.        *)
(* And a model of the parser core (core/src/syn/parser/prime.rs): its      *)
(* productions as operators over a token stream, applied by one action     *)
(* per entry point.  And a model of the error conversions                  *)
(* (core/src/err/mod.rs): the From impls and the two transforms of a       *)
(* coercion error, each an action on the error in hand.                    *)
(***************************************************************************)
EXTENDS Integers, Sequences, FiniteSets, TLC

VARIABLES
    session,   \* dbs::Session: [ns, db, au, rt]; ns and db are Option<String>
    vars,      \* BTreeMap<String, Value>: the session variables
    lq,        \* the associated constant LQ_SUPPORT of the implementing context
    gql,       \* the GraphQL build and capability configuration
    pc,        \* "idle": waiting for a call; "done": a call has been answered
    last,      \* the call being answered: [surface, method, handler, params]
    pre,       \* the session and the variables as they were when the call arrived
    result,    \* what the call returned: a Value, an Err, Responses or Panic
    calls,     \* the storage-engine calls the handler made, in order
    res,       \* what the storage engine returned to the handler: the
               \* Vec<Response> of execute / process, the value of compute
    hooks,     \* the live-query hooks the handler invoked, in order
    iam,       \* the session as the IAM collaborator left it, if it was called
    tokens,    \* the token stream handed to the parser
    limits,    \* the configured caps of the nested-query and nested-object depth
    entry,     \* the entry point the stream was parsed from, "none" before
    parser,    \* the parser: its position, flag, counters and outcome
    original,  \* the stream and the value of a parse whose value was printed
    raised,    \* the error that was raised: a library's, or one of err::Error
    error,     \* the err::Error it has become, once converted
    applied    \* the conversion and the transforms applied to it, in order

vars_all ==
    <<session, vars, lq, gql, pc, last, pre, result, calls, res, hooks, iam,
      tokens, limits, entry, parser, original, raised, error, applied>>

\* ---------------------------------------------------------------- bounds

\* The longest list of responses the storage engine returns for one program.
MaxResp == 2
\* The largest cap of the parser's depth counters; the token streams nest
\* one level deeper.
MaxDepth == 2
\* The most transforms applied to one error.
MaxApplied == 3

\* ---------------------------------------------------------------- values

\* sql::Value, as a tag and a payload (both strings, so any two compare).
VNone == [t |-> "None", v |-> ""]
VNull == [t |-> "Null", v |-> ""]
VBool(b) == [t |-> "Bool", v |-> b]
VNumber(n) == [t |-> "Number", v |-> n]
VStrand(s) == [t |-> "Strand", v |-> s]
VObject(o) == [t |-> "Object", v |-> o]
VQuery(q) == [t |-> "Query", v |-> q]
VUuid(u) == [t |-> "Uuid", v |-> u]
VParam(n) == [t |-> "Param", v |-> n]

\* Result<_, RpcError>::Err(e), and a handler that aborted (panic).
Err(e) == [t |-> "Err", v |-> e]
Panic(why) == [t |-> "Panic", v |-> why]
\* Data::Query(Vec<Response>): the list itself is the variable res.
Responses == [t |-> "Responses", v |-> ""]

\* Option<T> as a sequence of length 0 or 1.
None == <<>>
Some(x) == <<x>>

\* The empty BTreeMap.
EmptyMap == [k \in {} |-> VNone]

\* Session::default(): what mem::take leaves behind.
DefaultSession == [ns |-> None, db |-> None, au |-> "anon", rt |-> FALSE]

\* ------------------------------------------------------- input domains

\* Names a client may choose for a namespace, a database or a strand argument.
Strands == {"x", "y"}
\* Names of session variables a client sets; "auth" is a protected name.
VarNames == {"a", "what"}
Protected == {"auth"}
\* Values stored in variables and passed as arguments.
Numbers == {"1", "2"}

\* The Object arguments a client passes: each a mapping from name to Value.
Objects == {"o0", "oa", "oaw", "pretty", "cbor", "xml", "gql"}
ObjFields(o) ==
    IF o = "oa" THEN [k \in {"a"} |-> VNumber("7")]
    ELSE IF o = "oaw" THEN [k \in {"a", "what"} |-> VNumber("8")]
    ELSE IF o = "pretty" THEN [k \in {"pretty"} |-> VBool("true")]
    ELSE IF o = "cbor" THEN [k \in {"format"} |-> VStrand("cbor")]
    ELSE IF o = "xml" THEN [k \in {"format"} |-> VStrand("xml")]
    ELSE IF o = "gql" THEN [k \in {"query"} |-> VStrand("{ person }")]
    ELSE EmptyMap

\* ---------------------------------------------- rpc::args::Take (Array)

\* needs_one, needs_two, needs_one_or_two, ...: the array taken as between lo
\* and hi arguments, the missing ones None; any other length is InvalidParams.
RECURSIVE Pad(_, _)
Pad(params, n) == IF Len(params) >= n THEN params ELSE Pad(Append(params, VNone), n)
Take(params, lo, hi) ==
    IF Len(params) >= lo /\ Len(params) <= hi
    THEN [ok |-> TRUE, args |-> Pad(params, hi)]
    ELSE [ok |-> FALSE, args |-> <<>>]
needs_one(params) == Take(params, 1, 1)
needs_two(params) == Take(params, 2, 2)
needs_one_or_two(params) == Take(params, 1, 2)
needs_one_two_or_three(params) == Take(params, 1, 3)
needs_three_or_four(params) == Take(params, 3, 4)

\* ------------------------------------------------ the map! and mrg! macros

\* Mutant of MapMacro: on a conflict the entry of the spread map is kept.
MapMacroSpreadWins(explicit, spread) ==
    [k \in DOMAIN explicit \cup DOMAIN spread |->
        IF k \in DOMAIN spread THEN spread[k] ELSE explicit[k]]
\* map! { k1 => v1, ..., => &spread }: the spread map with the listed entries
\* bound over it.
MapMacro(explicit, spread) ==
    [k \in DOMAIN explicit \cup DOMAIN spread |->
        IF k \in DOMAIN explicit THEN explicit[k] ELSE spread[k]]

\* Mutant of Mrg: on a conflict the entry of x replaces the one of m.
MrgSessionWins(m, x) ==
    [k \in DOMAIN m \cup DOMAIN x |-> IF k \in DOMAIN x THEN x[k] ELSE m[k]]
\* mrg! { m, &x }: the caller's map m merged with x, m's entries kept.
Mrg(m, x) ==
    [k \in DOMAIN m \cup DOMAIN x |-> IF k \in DOMAIN m THEN m[k] ELSE x[k]]

\* One entry, as a map.
Entry(k, v) == [n \in {k} |-> v]

\* BTreeMap::remove and BTreeMap::insert.
MapRemove(m, k) == [n \in DOMAIN m \ {k} |-> m[n]]
MapInsert(m, k, v) == [n \in DOMAIN m \cup {k} |-> IF n = k THEN v ELSE m[n]]

\* -------------------------------------------------------- storage engine

\* Response { result, query_type }; time is not modelled.
QueryTypes == {"Other", "Live", "Kill"}
RespResults == {VUuid("u1"), VUuid("u2"), VNull, Err("Thrown")}
Response == [query_type : QueryTypes, result : RespResults]

RECURSIVE SeqsUpTo(_, _)
SeqsUpTo(S, n) ==
    IF n = 0 THEN {<<>>}
    ELSE LET shorter == SeqsUpTo(S, n - 1)
         IN shorter \cup {Append(q, x) : q \in {r \in shorter : Len(r) = n - 1}, x \in S}

\* What execute / process may answer: an engine error, or one response per
\* statement of the program.  A handler's own program has one statement; a
\* client's program (query) has any number up to MaxResp.
EngineOutcomes(lo, hi) ==
    {[ok |-> FALSE, res |-> <<>>]}
    \cup {[ok |-> TRUE, res |-> r] : r \in {q \in SeqsUpTo(Response, hi) : Len(q) >= lo}}

\* Datastore::compute(val, session, vars): a parameter evaluates to the
\* variable bound under its name (None when unbound), a literal to itself.
Compute(val, vs) ==
    IF val.t = "Param"
    THEN IF val.v \in DOMAIN vs THEN vs[val.v] ELSE VNone
    ELSE val

\* The value compute returned, as recorded in res.
Computed(v) == [query_type |-> "Other", result |-> v]

\* One engine call, as recorded in calls.
EngineCall(op, arg, vs) ==
    [op |-> op, arg |-> arg, vars |-> vs, fargs |-> <<>>, version |-> None]

\* sql::Value helpers used by the handlers.
VThing(r) == [t |-> "Thing", v |-> r]
VTable(n) == [t |-> "Table", v |-> n]
VArray(a) == [t |-> "Array", v |-> a]
\* The arrays that occur, by name, with their elements.
ArrayItems(a) ==
    IF a = "r1,r2" THEN <<VThing("r1"), VThing("r2")>>
    ELSE IF a = "r1" THEN <<VThing("r1")>>
    ELSE IF a = "1,2" THEN <<VNumber("1"), VNumber("2")>>
    ELSE <<>>
is_thing(v) == v.t = "Thing"
is_true(v) == v = VBool("true")
is_none_or_null(v) == v.t \in {"None", "Null"}
could_be_table(v) == IF v.t = "Strand" THEN VTable(v.v) ELSE v
\* Value::first: the first element of an array, None for anything else.
First(v) ==
    IF v.t = "Array" /\ ArrayItems(v.v) # <<>> THEN Head(ArrayItems(v.v)) ELSE VNone

\* ------------------------------------------------------- IAM collaborator

\* What iam::signup, iam::signin and iam::verify::token may do with the
\* &mut Session they are handed: leave it, or authenticate it (possibly
\* selecting the namespace and database of the credentials); and succeed or
\* fail, the two being independent as far as the interface goes.
IamSessions(s) ==
    {s,
     [s EXCEPT !.au = "user"],
     [s EXCEPT !.au = "user", !.ns = Some("x"), !.db = Some("x")]}
IamOutcomes(s) == [ok : BOOLEAN, session : IamSessions(s)]

\* iam::clear::clear: the authentication is reset to the default.
IamClear(s) == [s EXCEPT !.au = "anon"]

\* ------------------------------------------------------------- handlers

Ret(r) == result' = r
NoEngine == calls' = <<>> /\ res' = <<>> /\ hooks' = <<>>
NoIam == iam' = None

\* Mutant of UseRejected: the two operands of the test swapped.
UseRejectedSwapped(ns, db) == db = VNull /\ ns # VNull
\* yuse: clearing the namespace while keeping the database is refused.
UseRejected(ns, db) == ns = VNull /\ db # VNull
\* Mutant of UseField: everything that is not a string unsets.
UseFieldNoneClears(arg, cur) == IF arg.t = "Strand" THEN Some(arg.v) ELSE None
\* yuse: null = unset, string = change, anything else = do nothing.
UseField(arg, cur) ==
    IF arg = VNull THEN None
    ELSE IF arg.t = "Strand" THEN Some(arg.v)
    ELSE cur

yuse(params) ==
    LET a == needs_two(params) IN
    /\ NoIam
    /\ NoEngine
    /\ UNCHANGED vars
    /\ IF ~a.ok
       THEN Ret(Err("InvalidParams")) /\ UNCHANGED session
       ELSE IF UseRejected(a.args[1], a.args[2])
       THEN Ret(Err("InvalidParams")) /\ UNCHANGED session
       ELSE /\ session' = [session EXCEPT !.ns = UseField(a.args[1], @),
                                          !.db = UseField(a.args[2], @)]
            /\ Ret(VNone)

\* Mutant of SessionAfterIam: a failure leaves the default session behind.
SessionAfterIamReset(o) == IF o.ok THEN o.session ELSE DefaultSession
\* signup and signin: the session is taken out (mem::take), handed to the
\* collaborator, and written back whatever the collaborator answered.
SessionAfterIam(o) == o.session

signup(params) ==
    LET a == needs_one(params) IN
    /\ NoEngine
    /\ UNCHANGED vars
    /\ IF ~(a.ok /\ a.args[1].t = "Object")
       THEN Ret(Err("InvalidParams")) /\ NoIam /\ UNCHANGED session
       ELSE \E o \in IamOutcomes(session) :
                /\ iam' = Some(o.session)
                /\ session' = SessionAfterIam(o)
                /\ Ret(IF o.ok THEN VStrand("token") ELSE Err("Thrown"))

signin(params) ==
    LET a == needs_one(params) IN
    /\ NoEngine
    /\ UNCHANGED vars
    /\ IF ~(a.ok /\ a.args[1].t = "Object")
       THEN Ret(Err("InvalidParams")) /\ NoIam /\ UNCHANGED session
       ELSE \E o \in IamOutcomes(session) :
                /\ iam' = Some(o.session)
                /\ session' = SessionAfterIam(o)
                /\ Ret(IF o.ok THEN VStrand("token") ELSE Err("Thrown"))

invalidate ==
    /\ NoEngine
    /\ NoIam
    /\ UNCHANGED vars
    /\ session' = IamClear(session)
    /\ Ret(VNone)

\* authenticate: a failed verification returns through `?` before the
\* session that was taken out is written back.
authenticate(params) ==
    LET a == needs_one(params) IN
    /\ NoEngine
    /\ UNCHANGED vars
    /\ IF ~(a.ok /\ a.args[1].t = "Strand")
       THEN Ret(Err("InvalidParams")) /\ NoIam /\ UNCHANGED session
       ELSE \E o \in IamOutcomes(session) :
                /\ iam' = Some(o.session)
                /\ IF o.ok
                   THEN session' = o.session /\ Ret(VNone)
                   ELSE session' = DefaultSession /\ Ret(Err("Thrown"))

\* Mutant of SetVars: the session variables are not passed on.
SetVarsKeyOnly(key, vs) == Entry(key, VNone)
\* Mutant of SetStore: None is stored like any other value.
SetStoreKeepsNone(vs, key, v) == MapInsert(vs, key, v)
\* set: the variables the value is computed under.
SetVars(key, vs) == MapMacro(Entry(key, VNone), vs)
\* set: None removes the variable, any other value is stored.
SetStore(vs, key, v) == IF v = VNone THEN MapRemove(vs, key) ELSE MapInsert(vs, key, v)

set(params) ==
    LET a == needs_one_or_two(params) IN
    /\ NoIam
    /\ hooks' = <<>>
    /\ UNCHANGED session
    /\ IF ~(a.ok /\ a.args[1].t = "Strand")
       THEN Ret(Err("InvalidParams")) /\ calls' = <<>> /\ res' = <<>> /\ UNCHANGED vars
       ELSE LET key == a.args[1].v
                val == a.args[2]
                var == SetVars(key, vars)
            IN /\ calls' = <<EngineCall("compute", val, Some(var))>>
               /\ IF DOMAIN var \cap Protected # {}
                  THEN Ret(Err("InvalidParam")) /\ res' = <<>> /\ UNCHANGED vars
                  ELSE \/ Ret(Err("Thrown")) /\ res' = <<>> /\ UNCHANGED vars
                       \/ /\ res' = <<Computed(Compute(val, var))>>
                          /\ vars' = SetStore(vars, key, Compute(val, var))
                          /\ Ret(VNull)

\* Mutant of UnsetStore: nothing is removed.
UnsetStoreNoop(vs, key) == vs
\* unset: the variable is removed.
UnsetStore(vs, key) == MapRemove(vs, key)

unset(params) ==
    LET a == needs_one(params) IN
    /\ NoIam
    /\ NoEngine
    /\ UNCHANGED session
    /\ IF ~(a.ok /\ a.args[1].t = "Strand")
       THEN Ret(Err("InvalidParams")) /\ UNCHANGED vars
       ELSE vars' = UnsetStore(vars, a.args[1].v) /\ Ret(VNull)

\* --------------------------------------------------------- live queries

\* handle_live_query_results: the hook one response asks for, if any.
HookOf(r) ==
    IF r.query_type = "Live" /\ r.result.t = "Uuid"
    THEN <<[kind |-> "live", id |-> r.result.v]>>
    ELSE IF r.query_type = "Kill" /\ r.result.t = "Uuid"
    THEN <<[kind |-> "kill", id |-> r.result.v]>>
    ELSE <<>>

\* The hooks the post-processing loop asks for, in the order of the responses.
RECURSIVE HooksFor(_)
HooksFor(rs) == IF rs = <<>> THEN <<>> ELSE HookOf(Head(rs)) \o HooksFor(Tail(rs))

\* Mutant of BadLQ: the capability test inverted.
BadLQInverted == lq /\ session.rt
\* query_inner refuses when realtime is on and there is no live-query handler.
BadLQ == ~lq /\ session.rt

\* query_inner(query, vars); `first` is what kill and live do with the
\* answer (res.remove(0), then its result), query returns the whole list.
\* The default handle_live / handle_kill (LQ_SUPPORT = false) abort.
query_inner(query, vs, first, ress) ==
    IF BadLQ
    THEN Ret(Err("BadLQConfig")) /\ NoEngine
    ELSE IF query.t \notin {"Query", "Strand"}
    THEN Ret(Panic("unreachable")) /\ NoEngine
    ELSE \E o \in ress :
        /\ calls' = <<EngineCall(IF query.t = "Query" THEN "process" ELSE "execute",
                                 query, Some(vs))>>
        /\ res' = o.res
        /\ IF ~o.ok
           THEN hooks' = <<>> /\ Ret(Err("Thrown"))
           ELSE LET want == HooksFor(o.res) IN
                IF want # <<>> /\ ~lq
                THEN hooks' = <<Head(want)>> /\ Ret(Panic("unimplemented"))
                ELSE /\ hooks' = want
                     /\ Ret(IF ~first THEN Responses
                            ELSE IF o.res = <<>> THEN Panic("remove")
                            ELSE Head(o.res).result)

\* The answers to LIVE / KILL and to a client's program.
LiveOutcomes == EngineOutcomes(1, 1)
QueryOutcomes == EngineOutcomes(0, MaxResp)

kill(params) ==
    LET a == needs_one(params) IN
    /\ NoIam
    /\ UNCHANGED <<session, vars>>
    /\ IF ~a.ok
       THEN Ret(Err("InvalidParams")) /\ NoEngine
       ELSE query_inner(VStrand("KILL $id"),
                        MapMacro(Entry("id", a.args[1]), vars), TRUE, LiveOutcomes)

live(params) ==
    LET a == needs_one_or_two(params) IN
    /\ NoIam
    /\ UNCHANGED <<session, vars>>
    /\ IF ~a.ok
       THEN Ret(Err("InvalidParams")) /\ NoEngine
       ELSE query_inner(VStrand(IF is_true(a.args[2]) THEN "LIVE SELECT DIFF FROM $tb"
                                ELSE "LIVE SELECT * FROM $tb"),
                        MapMacro(Entry("tb", could_be_table(a.args[1])), vars),
                        TRUE, LiveOutcomes)

\* query: the variables handed to the engine.
QueryVars(o, vs) == IF o.t = "Object" THEN Mrg(ObjFields(o.v), vs) ELSE vs

query(params) ==
    LET a == needs_one_or_two(params) IN
    /\ NoIam
    /\ UNCHANGED <<session, vars>>
    /\ IF ~a.ok
       THEN Ret(Err("InvalidParams")) /\ NoEngine
       ELSE IF a.args[1].t \notin {"Query", "Strand"}
       THEN Ret(Err("InvalidParams")) /\ NoEngine
       ELSE IF a.args[2].t \notin {"Object", "None", "Null"}
       THEN Ret(Err("InvalidParams")) /\ NoEngine
       ELSE query_inner(a.args[1], QueryVars(a.args[2], vars), FALSE, QueryOutcomes)

\* ------------------------------------------------- record-level handlers

\* The answers to a handler's own one-statement program.
CrudResults == {VArray("r1,r2"), VArray(""), VThing("r1"), Err("Thrown")}
CrudOutcomes ==
    {[ok |-> FALSE, res |-> <<>>]}
    \cup {[ok |-> TRUE, res |-> <<[query_type |-> "Other", result |-> r]>>] : r \in CrudResults}

\* Mutant of Extract: the result is returned whole even for one record.
ExtractWhole(one, r) == r
\* match one { true => result?.first(), false => result? }
Extract(one, r) == IF one THEN First(r) ELSE r

\* The tail every record-level handler shares: execute the program, take the
\* first response, and return its first element when one record was asked for.
ExecuteFirst(sql, bound, one) ==
    /\ hooks' = <<>>
    /\ calls' = <<EngineCall("execute", VStrand(sql), bound)>>
    /\ \E o \in CrudOutcomes :
        /\ res' = o.res
        /\ Ret(IF ~o.ok THEN Err("Thrown")
               ELSE IF Head(o.res).result.t = "Err" THEN Err("Thrown")
               ELSE Extract(one, Head(o.res).result))

info ==
    /\ NoIam
    /\ UNCHANGED <<session, vars>>
    /\ ExecuteFirst("SELECT * FROM $auth", None, TRUE)

\* How many arguments each record-level handler takes.
CrudLo(h) == IF h = "insert" THEN 2 ELSE IF h = "relate" THEN 3 ELSE 1
CrudHi(h) ==
    IF h \in {"select", "delete"} THEN 1
    ELSE IF h = "patch" THEN 3
    ELSE IF h = "relate" THEN 4
    ELSE 2

\* The program each handler synthesises.
CrudSql(h, data, diff) ==
    CASE h = "select" -> "SELECT * FROM $what"
      [] h = "insert" -> "INSERT INTO $what $data RETURN AFTER"
      [] h = "create" -> IF is_none_or_null(data) THEN "CREATE $what RETURN AFTER"
                         ELSE "CREATE $what CONTENT $data RETURN AFTER"
      [] h = "upsert" -> IF is_none_or_null(data) THEN "UPSERT $what RETURN AFTER"
                         ELSE "UPSERT $what CONTENT $data RETURN AFTER"
      [] h = "update" -> IF is_none_or_null(data) THEN "UPDATE $what RETURN AFTER"
                         ELSE "UPDATE $what CONTENT $data RETURN AFTER"
      [] h = "merge" -> IF is_none_or_null(data) THEN "UPDATE $what RETURN AFTER"
                        ELSE "UPDATE $what MERGE $data RETURN AFTER"
      [] h = "patch" -> IF is_true(diff) THEN "UPDATE $what PATCH $data RETURN DIFF"
                        ELSE "UPDATE $what PATCH $data RETURN AFTER"
      [] h = "delete" -> "DELETE $what RETURN BEFORE"
      [] h = "relate" -> IF is_none_or_null(data) THEN "RELATE $from->$kind->$to"
                         ELSE "RELATE $from->$kind->$to CONTENT $data"

\* The parameters each handler binds over the session variables.
CrudBound(h, args) ==
    IF h \in {"select", "delete"}
    THEN Entry("what", could_be_table(args[1]))
    ELSE IF h = "relate"
    THEN [k \in {"from", "kind", "to", "data"} |->
            IF k = "from" THEN args[1]
            ELSE IF k = "kind" THEN could_be_table(args[2])
            ELSE IF k = "to" THEN args[3]
            ELSE args[4]]
    ELSE [k \in {"what", "data"} |->
            IF k = "what" THEN could_be_table(args[1]) ELSE args[2]]

\* select, insert, create, upsert, update, merge, patch, delete, relate.
crud(h, params) ==
    LET a == Take(params, CrudLo(h), CrudHi(h)) IN
    /\ NoIam
    /\ UNCHANGED <<session, vars>>
    /\ IF ~a.ok
       THEN Ret(Err("InvalidParams")) /\ NoEngine
       ELSE LET args == Pad(a.args, 4) IN
            ExecuteFirst(CrudSql(h, IF h = "relate" THEN args[4] ELSE args[2], args[3]),
                         Some(MapMacro(CrudBound(h, args), vars)),
                         is_thing(IF h = "relate" THEN args[2] ELSE args[1]))

version(params) ==
    /\ NoIam
    /\ UNCHANGED <<session, vars>>
    /\ NoEngine
    /\ Ret(IF Len(params) = 0 THEN VStrand("version") ELSE Err("InvalidParams"))

\* ------------------------------------------------------------------ run

\* &func_name[0..4]: the first four bytes of the name; the slice aborts when
\* the name is shorter or byte 4 is inside a character (None here).
Prefix4(name) ==
    IF name = "fn::foo" THEN Some("fn::")
    ELSE IF name = "ml::m" THEN Some("ml::")
    ELSE IF name = "count" THEN Some("coun")
    ELSE None
\* func_name.chars().skip(4).collect()
Skip4(name) ==
    IF name = "fn::foo" THEN "foo" ELSE IF name = "ml::m" THEN "m" ELSE "t"

run(params) ==
    LET a == needs_one_two_or_three(params) IN
    /\ NoIam
    /\ UNCHANGED <<session, vars>>
    /\ hooks' = <<>>
    /\ IF ~(a.ok /\ a.args[1].t = "Strand")
       THEN Ret(Err("InvalidParams")) /\ calls' = <<>> /\ res' = <<>>
       ELSE IF a.args[2].t \notin {"Strand", "None", "Null"}
       THEN Ret(Err("InvalidParams")) /\ calls' = <<>> /\ res' = <<>>
       ELSE IF a.args[3].t \notin {"Array", "None", "Null"}
       THEN Ret(Err("InvalidParams")) /\ calls' = <<>> /\ res' = <<>>
       ELSE LET name == a.args[1].v
                ver == IF a.args[2].t = "Strand" THEN Some(a.args[2].v) ELSE None
                args == IF a.args[3].t = "Array" THEN ArrayItems(a.args[3].v) ELSE <<>>
                pfx == Prefix4(name)
            IN IF pfx = None
               THEN Ret(Panic("slice")) /\ calls' = <<>> /\ res' = <<>>
               ELSE IF pfx = Some("ml::") /\ ver = None
               THEN Ret(Err("InvalidParams")) /\ calls' = <<>> /\ res' = <<>>
               ELSE /\ calls' = <<[op |-> "process",
                                   arg |-> IF pfx = Some("fn::") THEN [t |-> "Custom", v |-> Skip4(name)]
                                           ELSE IF pfx = Some("ml::") THEN [t |-> "Model", v |-> Skip4(name)]
                                           ELSE [t |-> "Normal", v |-> name],
                                   vars |-> Some(vars),
                                   fargs |-> args,
                                   version |-> IF pfx = Some("ml::") THEN ver ELSE None]>>
                    /\ \E o \in CrudOutcomes :
                        /\ res' = o.res
                        /\ Ret(IF ~o.ok THEN Err("Thrown") ELSE Head(o.res).result)

\* -------------------------------------------------------------- graphql

\* The options loop: every entry must be pretty: Bool or format: json | cbor.
OptionsOk(o) ==
    \A k \in DOMAIN o :
        \/ k = "pretty" /\ o[k].t = "Bool"
        \/ k = "format" /\ o[k] \in {VStrand("json"), VStrand("cbor")}
OptionsCbor(o) == "format" \in DOMAIN o /\ o["format"] = VStrand("cbor")

\* gql is the build and capability configuration: "stub" is the build without
\* GraphQL, "off" has GRAPHQL_ENABLE false, "unsupported" has GQL_SUPPORT
\* false, "on" has both.
graphql(params) ==
    LET a == needs_one_or_two(params) IN
    /\ NoIam
    /\ UNCHANGED <<session, vars>>
    /\ res' = <<>> /\ hooks' = <<>>
    /\ IF gql = "stub"
       THEN Ret(Err("MethodNotFound")) /\ calls' = <<>>
       ELSE IF gql \in {"off", "unsupported"}
       THEN Ret(Err("BadGQLConfig")) /\ calls' = <<>>
       ELSE IF ~a.ok
       THEN Ret(Err("InvalidParams")) /\ calls' = <<>>
       ELSE IF a.args[2].t # "Object"
       THEN Ret(Err("InvalidParams")) /\ calls' = <<>>
       ELSE IF ~OptionsOk(ObjFields(a.args[2].v))
       THEN Ret(Err("InvalidParams")) /\ calls' = <<>>
       ELSE IF a.args[1].t = "Strand" /\ OptionsCbor(ObjFields(a.args[2].v))
       THEN Ret(Err("Thrown")) /\ calls' = <<>>
       ELSE IF a.args[1].t = "Strand"
       THEN \/ Ret(Err("ParseError")) /\ calls' = <<>>
            \/ /\ calls' = <<EngineCall("graphql", a.args[1], None)>>
               /\ (Ret(Err("Thrown")) \/ Ret(VStrand("json")))
       ELSE IF a.args[1].t = "Object"
       THEN IF ~("query" \in DOMAIN ObjFields(a.args[1].v)
                 /\ ObjFields(a.args[1].v)["query"].t = "Strand")
            THEN Ret(Err("InvalidParams")) /\ calls' = <<>>
            ELSE /\ calls' = <<EngineCall("graphql", ObjFields(a.args[1].v)["query"], None)>>
                 /\ (Ret(Err("Thrown")) \/ Ret(VStrand("json")))
       ELSE Ret(Err("InvalidParams")) /\ calls' = <<>>

\* ------------------------------------------------------------- dispatch

\* rpc::method::Method
CrudMethods ==
    {"select", "insert", "create", "upsert", "update", "merge", "patch", "delete", "relate"}
Method ==
    {"ping", "info", "use", "signup", "signin", "invalidate", "authenticate", "kill",
     "live", "set", "unset", "version", "query", "run", "graphql", "unknown"}
    \cup CrudMethods

\* Mutant of ImmutMethods: unset is served on the read-only surface.
ImmutMethodsWithUnset ==
    {"ping", "info", "version", "query", "run", "graphql", "unset"} \cup CrudMethods
\* The arms of execute_immut that reach a handler.
ImmutMethods ==
    {"ping", "info", "version", "query", "run", "graphql"} \cup CrudMethods

\* The handler a match arm calls ("none": the arm answers by itself).
HandlerOf(method) ==
    IF method \in {"ping", "unknown"} THEN "none"
    ELSE IF method = "use" THEN "yuse"
    ELSE method

\* The handler, called with the params.
Handle(method, params) ==
    CASE method = "info" -> info
      [] method = "use" -> yuse(params)
      [] method = "signup" -> signup(params)
      [] method = "signin" -> signin(params)
      [] method = "invalidate" -> invalidate
      [] method = "authenticate" -> authenticate(params)
      [] method = "kill" -> kill(params)
      [] method = "live" -> live(params)
      [] method = "set" -> set(params)
      [] method = "unset" -> unset(params)
      [] method \in CrudMethods -> crud(method, params)
      [] method = "version" -> version(params)
      [] method = "query" -> query(params)
      [] method = "run" -> run(params)
      [] method = "graphql" -> graphql(params)

\* An arm that answers without a handler.
Answer(r) == Ret(r) /\ NoEngine /\ NoIam /\ UNCHANGED <<session, vars>>

\* A call arrives: the context is idle, and the answer is ready after it.
Begin(surface, method, handler, params) ==
    /\ pc = "idle"
    /\ pc' = "done"
    /\ last' = [surface |-> surface, method |-> method, handler |-> handler,
                params |-> params]
    /\ pre' = [session |-> session, vars |-> vars]
    /\ UNCHANGED <<lq, gql>>
    /\ UNCHANGED <<tokens, limits, entry, parser, original>>
    /\ UNCHANGED <<raised, error, applied>>

\* RpcContext::execute(&mut self, method, params)
execute(method, params) ==
    IF method = "ping"
    THEN Begin("execute", method, "none", params) /\ Answer(VNone)
    ELSE IF method = "unknown"
    THEN Begin("execute", method, "none", params) /\ Answer(Err("MethodNotFound"))
    ELSE Begin("execute", method, HandlerOf(method), params) /\ Handle(method, params)

\* RpcContext::execute_immut(&self, method, params)
execute_immut(method, params) ==
    IF method = "ping"
    THEN Begin("execute_immut", method, "none", params) /\ Answer(VNone)
    ELSE IF method \in ImmutMethods
    THEN Begin("execute_immut", method, HandlerOf(method), params) /\ Handle(method, params)
    ELSE Begin("execute_immut", method, "none", params) /\ Answer(Err("MethodNotFound"))

\* The methods that suspend on the IAM collaborator with the session taken
\* out of the context (mem::take), and the type of the one argument each
\* must have to get that far.
Suspending == {"signup", "signin", "authenticate"}
Suspends(method, params) ==
    /\ method \in Suspending
    /\ needs_one(params).ok
    /\ needs_one(params).args[1].t = (IF method = "authenticate" THEN "Strand" ELSE "Object")

\* What a call was answered with when it was dropped before it returned.
Cancelled == [t |-> "Cancelled", v |-> ""]

\* The handler is dropped at its await: tmp_session, which holds the session
\* that was taken out, is dropped with it, and the context keeps what
\* mem::take left in its place.
SessionAfterDrop(s) == DefaultSession

\* A call of signup, signin or authenticate that is cancelled while it waits
\* for the IAM collaborator.
cancelled(method, params) ==
    /\ Suspends(method, params)
    /\ Begin("execute", method, HandlerOf(method), params)
    /\ NoEngine
    /\ UNCHANGED vars
    /\ \E o \in IamOutcomes(session) : iam' = Some(o.session)
    /\ session' = SessionAfterDrop(session)
    /\ Ret(Cancelled)

\* The transport takes the answer; the context waits for the next call.
NoCall == [surface |-> "none", method |-> "none", handler |-> "none", params |-> <<>>]
Reply ==
    /\ pc = "done"
    /\ pc' = "idle"
    /\ last' = NoCall
    /\ pre' = [session |-> session, vars |-> vars]
    /\ result' = VNone
    /\ NoEngine
    /\ NoIam
    /\ UNCHANGED <<session, vars, lq, gql>>
    /\ UNCHANGED <<tokens, limits, entry, parser, original>>
    /\ UNCHANGED <<raised, error, applied>>

\* ------------------------------------------------------------- the calls

\* The params a client sends with each method.
UseArgs == {VNone, VNull, VNumber("1")} \cup {VStrand(s) : s \in Strands}
SetKeys == {VStrand(n) : n \in VarNames \cup Protected} \cup {VNumber("1")}
SetVals == {VNone, VParam("a"), VParam("what")} \cup {VNumber(n) : n \in Numbers}
CrudParams(h) ==
    IF h = "relate"
    THEN {<<VThing("r1"), k, VThing("r2")>> : k \in {VStrand("x"), VThing("r1")}}
         \cup {<<VThing("r1"), VStrand("x"), VThing("r2"), VObject("oa")>>, <<VThing("r1")>>}
    ELSE {<<w>> : w \in {VStrand("x"), VThing("r1")}}
         \cup {<<w, VObject("oa")>> : w \in {VStrand("x"), VThing("r1")}}
         \cup {<<VStrand("x"), VObject("oa"), VBool("true")>>, <<>>}
Params(method) ==
    CASE method = "use" ->
            {<<n, d>> : n \in UseArgs, d \in UseArgs} \cup {<<>>, <<VNull>>}
      [] method \in {"signup", "signin"} -> {<<VObject("o0")>>, <<VStrand("x")>>, <<>>}
      [] method = "authenticate" -> {<<VStrand("x")>>, <<VObject("o0")>>, <<>>}
      [] method = "kill" -> {<<VUuid("u1")>>, <<VStrand("x")>>, <<>>}
      [] method = "live" -> {<<VStrand("x")>>, <<VStrand("x"), VBool("true")>>, <<>>}
      [] method = "set" ->
            {<<k, v>> : k \in SetKeys, v \in SetVals} \cup {<<VStrand("a")>>, <<>>}
      [] method = "unset" -> {<<k>> : k \in SetKeys} \cup {<<>>, <<VStrand("a"), VNull>>}
      [] method \in CrudMethods -> CrudParams(method)
      [] method = "version" -> {<<>>, <<VNull>>}
      [] method = "query" ->
            {<<VStrand("sql")>>, <<VQuery("ast")>>, <<VStrand("sql"), VNull>>,
             <<VStrand("sql"), VObject("oa")>>, <<VQuery("ast"), VObject("oaw")>>,
             <<VNumber("1")>>, <<VStrand("sql"), VNumber("1")>>, <<>>}
      [] method = "run" ->
            {<<VStrand(n)>> : n \in {"fn::foo", "ml::m", "count", "ab"}}
            \cup {<<VStrand("ml::m"), VStrand("1.0")>>,
                  <<VStrand("fn::foo"), VNone, VArray("1,2")>>,
                  <<VStrand("count"), VNumber("1")>>, <<VNumber("1")>>}
      [] method = "graphql" ->
            {<<VStrand("{}")>>, <<VStrand("{}"), VObject("pretty")>>,
             <<VStrand("{}"), VObject("cbor")>>, <<VStrand("{}"), VObject("xml")>>,
             <<VObject("gql"), VObject("o0")>>, <<VObject("o0"), VObject("o0")>>, <<>>}
      [] OTHER -> {<<>>, <<VNull>>}

\* One well-formed and one malformed call of each method.
FewParams(method) ==
    CASE method = "use" -> {<<VStrand("x"), VStrand("x")>>, <<>>}
      [] method \in {"signup", "signin"} -> {<<VObject("o0")>>, <<>>}
      [] method = "authenticate" -> {<<VStrand("x")>>, <<>>}
      [] method = "kill" -> {<<VUuid("u1")>>, <<>>}
      [] method = "live" -> {<<VStrand("x")>>, <<>>}
      [] method = "set" -> {<<VStrand("a"), VNumber("1")>>, <<>>}
      [] method = "unset" -> {<<VStrand("a")>>, <<>>}
      [] method \in CrudMethods \ {"relate"} -> {<<VStrand("x"), VObject("oa")>>, <<>>}
      [] method = "relate" -> {<<VThing("r1"), VStrand("x"), VThing("r2")>>, <<>>}
      [] method = "query" -> {<<VStrand("sql")>>, <<>>}
      [] method = "run" -> {<<VStrand("count")>>, <<>>}
      [] method = "graphql" -> {<<VStrand("{}"), VObject("o0")>>, <<>>}
      [] OTHER -> {<<>>, <<VNull>>}

\* ================================================================ parser
\*
\* syn/parser/prime.rs.  The input is the token stream as the lexer and glue
\* deliver it; a token is its text and a span is the token's index.  The
\* parser is the record p: its position in the stream, its table_as_field
\* flag, its two depth counters, and the outcome of the production that ran
\* last (ok with the value in v, or not ok with the ParseError in v).
\* `nesting` and `deepest` count the subquery and array productions that are
\* open, whether or not they looked at a counter.
\*
\* Of the arms of parse_what_primary and parse_idiom_expression those for
\* record strings, datetimes, uuids, strands, durations, scripts, futures,
\* graphs, objects, `||`, regexes, fn and ml are left out: their tokens are
\* never fed.

\* Token kinds (syn::token::TokenKind).
NumberTexts == {"1", "1000", "1.5", "2dec"}
IdentTexts == {"foo", "test"}
ParamTexts == {"$p"}
RegexTexts == {"/test/", "/a\\/b/"}
\* The keywords that lead a statement subquery.
StatementKeywords ==
    {"RETURN", "SELECT", "CREATE", "UPSERT", "UPDATE", "DELETE", "RELATE", "DEFINE",
     "REMOVE", "REBUILD"}
\* The keywords of the statements that are not allowed in a subquery.
DisallowedKeywords ==
    {"ANALYZE", "BEGIN", "BREAK", "CANCEL", "COMMIT", "CONTINUE", "FOR", "INFO", "KILL",
     "LIVE", "OPTION", "LET", "SHOW", "SLEEP", "THROW", "USE"}

TokenKind(tok) ==
    IF tok \in NumberTexts THEN "Number"
    ELSE IF tok \in IdentTexts THEN "Ident"
    ELSE IF tok \in ParamTexts THEN "$param"
    ELSE IF tok \in RegexTexts THEN "/"
    ELSE tok

\* Number { Int, Float, Decimal }: what a Number token's text parses to.  No
\* Number token parses to NaN: NaN is a token kind of its own.
NumberOf(text) ==
    [kind |-> IF text = "2dec" THEN "Decimal" ELSE IF text = "1.5" THEN "Float" ELSE "Int",
     nan |-> FALSE,
     text |-> text]

\* Regex: what a regex token parses to, the pattern between the slashes with
\* an escaped slash unescaped; and how a pattern is written.
RegexOf(text) == IF text = "/test/" THEN "test" ELSE "a/b"
RegexText(pattern) == IF pattern = "test" THEN "/test/" ELSE "/a\\/b/"

\* The parser at the start of the stream.
NewParser ==
    [pos |-> 1, table_as_field |-> FALSE, query_recursion |-> 0, object_recursion |-> 0,
     nesting |-> [query |-> 0, object |-> 0], deepest |-> [query |-> 0, object |-> 0],
     ok |-> TRUE, v |-> [t |-> "None"]]

\* peek_token_at(i).kind, the token's text, pop_peek / next, eat.
PeekAt(p, i) == IF p.pos + i <= Len(tokens) THEN TokenKind(tokens[p.pos + i]) ELSE "eof"
peek_kind(p) == PeekAt(p, 0)
Text(p) == IF p.pos <= Len(tokens) THEN tokens[p.pos] ELSE ""
pop_peek(p) == [p EXCEPT !.pos = @ + 1]

\* ParseResult: Ok(value) and Err(ParseError::new(kind, span)).
Parsed(p, v) == [p EXCEPT !.ok = TRUE, !.v = v]
ParseError(kind, at) ==
    [t |-> "ParseError", kind |-> kind, at |-> at, found |-> "", explain |-> "",
     disallowed |-> 0]
Failed(p, e) == [p EXCEPT !.ok = FALSE, !.v = e]

\* unexpected!(self, found, expected) and expected!(self, kind).
unexpected(p) == Failed(p, [ParseError("Unexpected", p.pos) EXCEPT !.found = peek_kind(p)])
expected(p, kind) == IF peek_kind(p) = kind THEN pop_peek(p) ELSE unexpected(p)

\* expect_closing_delimiter(kind, start): the error carries the opener's span.
expect_closing_delimiter(p, kind, start) ==
    IF peek_kind(p) = kind THEN pop_peek(p)
    ELSE Failed(p, [ParseError("UnclosedDelimiter", start) EXCEPT !.found = peek_kind(p)])

\* Keywords may be used as identifiers.
can_start_ident(kind) ==
    kind = "Ident" \/ kind \in DisallowedKeywords \/ kind \in StatementKeywords
\* next_token_value::<Ident>()
next_ident(p) == IF can_start_ident(peek_kind(p)) THEN Parsed(pop_peek(p), Text(p)) ELSE unexpected(p)
\* TokenKind::has_data
has_data(kind) == kind = "Number"
\* Parser::continues_idiom
continues_idiom(kind) == kind = "."

\* enter_query_recursion! / enter_object_recursion!: the check at the entry,
\* the counter while the production runs, and its release when it returns.
QueryDepthExceeded(p) == p.query_recursion >= limits.query
ObjectDepthExceeded(p) == p.object_recursion >= limits.object
DepthExceeded(p, counter) ==
    Failed(p, [ParseError("ComputationDepthExceeded", p.pos) EXCEPT !.found = counter])
\* A subquery or array production opens and closes.
Open(p, counter) ==
    [p EXCEPT !.nesting[counter] = @ + 1,
              !.deepest[counter] = IF @ > p.nesting[counter] THEN @
                                   ELSE p.nesting[counter] + 1]
Close(p, counter) == [p EXCEPT !.nesting[counter] = @ - 1]
EnterQuery(p) == [Open(p, "query") EXCEPT !.query_recursion = @ + 1]
LeaveQuery(p) == [Close(p, "query") EXCEPT !.query_recursion = @ - 1]
EnterObject(p) == [Open(p, "object") EXCEPT !.object_recursion = @ + 1]
LeaveObject(p) == [Close(p, "object") EXCEPT !.object_recursion = @ - 1]

\* Mutant of starts_disallowed_subquery_statement: KILL is not in the set.
starts_disallowed_without_kill(kind) == kind \in DisallowedKeywords \ {"KILL"}
\* Parser::starts_disallowed_subquery_statement
starts_disallowed_subquery_statement(kind) == kind \in DisallowedKeywords

\* next_token_value::<u64>(): an integer.
next_integer(p) ==
    IF peek_kind(p) = "Number" /\ NumberOf(Text(p)).kind = "Int"
    THEN Parsed(pop_peek(p), Text(p)) ELSE unexpected(p)

\* Mutant of parse_mock: the two ends of a range are stored swapped.
parse_mock_swapped(p, start) ==
    LET name == next_ident(p) IN
    IF ~name.ok THEN name ELSE
    LET colon == expected(name, ":") IN
    IF ~colon.ok THEN colon ELSE
    LET from == next_integer(colon) IN
    IF ~from.ok THEN from ELSE
    LET to == IF peek_kind(from) = ".." THEN next_integer(pop_peek(from)) ELSE from IN
    IF ~to.ok THEN to ELSE
    LET close == expect_closing_delimiter(to, "|", start) IN
    IF ~close.ok THEN close
    ELSE IF peek_kind(from) = ".."
    THEN Parsed(close, [t |-> "Mock", kind |-> "Range", name |-> name.v, from |-> to.v,
                        to |-> from.v])
    ELSE Parsed(close, [t |-> "Mock", kind |-> "Count", name |-> name.v, from |-> from.v,
                        to |-> ""])
\* Parser::parse_mock(start)
parse_mock(p, start) ==
    LET name == next_ident(p) IN
    IF ~name.ok THEN name ELSE
    LET colon == expected(name, ":") IN
    IF ~colon.ok THEN colon ELSE
    LET from == next_integer(colon) IN
    IF ~from.ok THEN from ELSE
    LET to == IF peek_kind(from) = ".." THEN next_integer(pop_peek(from)) ELSE from IN
    IF ~to.ok THEN to ELSE
    LET close == expect_closing_delimiter(to, "|", start) IN
    IF ~close.ok THEN close
    ELSE IF peek_kind(from) = ".."
    THEN Parsed(close, [t |-> "Mock", kind |-> "Range", name |-> name.v, from |-> from.v,
                        to |-> to.v])
    ELSE Parsed(close, [t |-> "Mock", kind |-> "Count", name |-> name.v, from |-> from.v,
                        to |-> ""])

\* sql::Value and sql::Subquery, as the productions build them.
PValue(t, v) == [t |-> t, v |-> v]
Field(name) == [part |-> "Field", v |-> name]
PIdiom(parts) == [t |-> "Idiom", parts |-> parts]
Subquery(kind, v) == [t |-> "Subquery", kind |-> kind, v |-> v]

\* Mutant of SubqueryVariant: UPSERT builds the subquery of an UPDATE.
SubqueryVariantUpsertAsUpdate(kind) ==
    CASE kind = "RETURN" -> "Output"
      [] kind = "SELECT" -> "Select"
      [] kind = "CREATE" -> "Create"
      [] kind \in {"UPSERT", "UPDATE"} -> "Update"
      [] kind = "DELETE" -> "Delete"
      [] kind = "RELATE" -> "Relate"
      [] kind = "DEFINE" -> "Define"
      [] kind = "REMOVE" -> "Remove"
      [] kind = "REBUILD" -> "Rebuild"
      [] OTHER -> "Value"
\* The arms of the two inner subquery productions: the variant of
\* sql::Subquery built for the token the content starts with.
SubqueryVariant(kind) ==
    CASE kind = "RETURN" -> "Output"
      [] kind = "SELECT" -> "Select"
      [] kind = "CREATE" -> "Create"
      [] kind = "UPSERT" -> "Upsert"
      [] kind = "UPDATE" -> "Update"
      [] kind = "DELETE" -> "Delete"
      [] kind = "RELATE" -> "Relate"
      [] kind = "DEFINE" -> "Define"
      [] kind = "REMOVE" -> "Remove"
      [] kind = "REBUILD" -> "Rebuild"
      [] OTHER -> "Value"

\* The DisallowedStatement diagnostic of the two inner subquery productions:
\* the content's first token (peek, taken before the content was parsed) is
\* a disallowed keyword, the content is an idiom of one part, and the next
\* token does not close the parenthesis.
disallowed_statement(p, first, sub) ==
    /\ peek_kind(p) # ")"
    /\ starts_disallowed_subquery_statement(TokenKind(tokens[first]))
    /\ sub.kind = "Value" /\ sub.v.t = "Idiom" /\ Len(sub.v.parts) = 1
DisallowedStatement(p, first) ==
    Failed(p, [ParseError("DisallowedStatement", p.pos)
                  EXCEPT !.found = peek_kind(p), !.disallowed = first])

\* ParseErrorKind::UnexpectedExplain of the coordinate production.
NotACoordinate(p, at) ==
    Failed(p, [ParseError("UnexpectedExplain", at)
                  EXCEPT !.found = "Digits",
                         !.explain = "coordinate numbers can't be NaN or a decimal"])

RECURSIVE Run(_, _, _)


\* parse_value_field / parse_value: the expression parser with bare
\* identifiers read as fields / as tables; operators are not modelled, so an
\* expression is one idiom expression.
parse_value_field(p) ==
    LET r == Run("parse_idiom_expression", [p EXCEPT !.table_as_field = TRUE], <<>>)
    IN [r EXCEPT !.table_as_field = p.table_as_field]
parse_value(p) ==
    LET r == Run("parse_idiom_expression", [p EXCEPT !.table_as_field = FALSE], <<>>)
    IN [r EXCEPT !.table_as_field = p.table_as_field]

\* The statement parsers, each abbreviated to its keyword (already eaten)
\* and one value; IF cond THEN value END, from the token the parser is at.
parse_stmt(p) == Run("parse_value_field", p, <<>>)
parse_if_stmt(p) ==
    LET cond == Run("parse_value_field", p, <<>>) IN
    IF ~cond.ok THEN cond ELSE
    LET then == expected(cond, "THEN") IN
    IF ~then.ok THEN then ELSE
    LET body == Run("parse_value_field", then, <<>>) IN
    IF ~body.ok THEN body ELSE
    LET end == expected(body, "END") IN
    IF ~end.ok THEN end
    ELSE Parsed(end, [t |-> "Ifelse", cond |-> cond.v, then |-> body.v])

\* The rest of an idiom: `.` field, repeated.
parse_remaining_value_idiom(p, parts) ==
    IF peek_kind(p) # "." THEN Parsed(p, PIdiom(parts))
    ELSE LET name == next_ident(pop_peek(p)) IN
         IF ~name.ok THEN name
         ELSE Run("parse_remaining_value_idiom", name, <<Append(parts, Field(name.v))>>)

\* name(args) and name:id, the identifier not yet eaten.
parse_builtin(p, name) ==
    LET r == Run("parse_args", pop_peek(p), <<p.pos, <<>>, ")">>) IN
    IF ~r.ok THEN r ELSE Parsed(r, [t |-> "Function", name |-> name, args |-> r.v])
parse_thing_or_range(p, name) ==
    LET id == next_ident(pop_peek(p)) IN
    IF ~id.ok THEN id ELSE Parsed(id, [t |-> "Thing", tb |-> name, id |-> id.v])

\* The loop of try_parse_inline and parse_array: values separated by commas
\* up to the closing delimiter, the opener already eaten.
parse_args(p, start, args, closer) ==
    IF peek_kind(p) = closer THEN Parsed(pop_peek(p), args)
    ELSE LET arg == Run("parse_value_field", p, <<>>) IN
         IF ~arg.ok THEN arg
         ELSE IF peek_kind(arg) = ","
         THEN Run("parse_args", pop_peek(arg), <<start, Append(args, arg.v), closer>>)
         ELSE LET close == expect_closing_delimiter(arg, closer, start) IN
              IF ~close.ok THEN close ELSE Parsed(close, Append(args, arg.v))

\* Parser::Run("try_parse_inline", subject, <<>>): the value is the subject itself when
\* no `(` follows (Ok(None), which every caller unwraps to the subject).
try_parse_inline(p, subject) ==
    IF peek_kind(p) # "(" THEN Parsed(p, subject)
    ELSE LET r == Run("parse_args", pop_peek(p), <<p.pos, <<>>, ")">>) IN
         IF ~r.ok THEN r ELSE Run("try_parse_inline", r, <<[t |-> "Anonymous", subject |-> subject, args |-> r.v]>>)

\* Parser::Run("parse_array", start, <<>>)
parse_array(p, start) ==
    IF ObjectDepthExceeded(p) THEN DepthExceeded(p, "object")
    ELSE LET r == LeaveObject(Run("parse_args", EnterObject(p), <<start, <<>>, "]">>)) IN
         IF ~r.ok THEN r ELSE Parsed(r, [t |-> "Array", items |-> r.v])

\* Mutant of parse_closure_or_mock: an identifier starts a closure too.
parse_closure_or_mock_by_ident(p, start) ==
    IF peek_kind(p) \in {"$param", "Ident"} THEN Run("parse_closure", p, <<start, <<>>>>)
    ELSE parse_mock(p, start)
\* Parser::Run("parse_closure_or_mock", start, <<>>)
parse_closure_or_mock(p, start) ==
    IF peek_kind(p) = "$param" THEN Run("parse_closure", p, <<start, <<>>>>)
    ELSE parse_mock(p, start)

\* Parser::Run("parse_closure", start, <<>>); the kinds of the parameters are left out.
parse_closure(p, start, args) ==
    IF peek_kind(p) = "|" THEN Run("parse_closure_after_args", pop_peek(p), <<args>>)
    ELSE IF peek_kind(p) # "$param" THEN unexpected(p)
    ELSE LET q == pop_peek(p)
             more == Append(args, Text(p))
         IN IF peek_kind(q) = "," THEN Run("parse_closure", pop_peek(q), <<start, more>>)
            ELSE LET close == expect_closing_delimiter(q, "|", start) IN
                 IF ~close.ok THEN close ELSE Run("parse_closure_after_args", close, <<more>>)

\* Parser::Run("parse_closure_after_args", args, <<>>), without a return kind.
parse_closure_after_args(p, args) ==
    LET body == Run("parse_value", p, <<>>) IN
    IF ~body.ok THEN body ELSE Parsed(body, [t |-> "Closure", args |-> args, body |-> body.v])

\* Parser::parse_what_primary
parse_what_primary(p) ==
    LET kind == peek_kind(p) IN
    IF kind = "$param"
    THEN Run("try_parse_inline", pop_peek(p), <<PValue("Param", Text(p))>>)
    ELSE IF kind = "IF"
    THEN \* the IF is not eaten and no counter is looked at
         LET r == Close(Run("parse_if_stmt", Open(p, "query"), <<>>), "query") IN
         IF ~r.ok THEN r ELSE Parsed(r, Subquery("Ifelse", r.v))
    ELSE IF kind = "("
    THEN LET r == Run("parse_inner_subquery", pop_peek(p), <<<<p.pos>>>>) IN
         IF ~r.ok THEN r ELSE Run("try_parse_inline", r, <<r.v>>)
    ELSE IF kind = "|"
    THEN Run("parse_closure_or_mock", pop_peek(p), <<p.pos>>)
    ELSE IF kind = "/"
    THEN Parsed(pop_peek(p), PValue("Regex", RegexOf(Text(p))))
    ELSE IF kind \in StatementKeywords
    THEN Run("parse_inner_subquery", p, <<<<>>>>)
    ELSE IF ~can_start_ident(kind) THEN unexpected(p)
    ELSE IF PeekAt(p, 1) = "("
    THEN Run("parse_builtin", pop_peek(p), <<Text(p)>>)
    ELSE IF PeekAt(p, 1) = ":"
    THEN Run("parse_thing_or_range", pop_peek(p), <<Text(p)>>)
    ELSE IF has_data(PeekAt(p, 1)) THEN unexpected(pop_peek(p))
    ELSE Parsed(pop_peek(p), PValue("Table", Text(p)))

\* Parser::parse_idiom_expression
parse_idiom_expression(p) ==
    LET kind == peek_kind(p)
        value ==
            IF kind = "Number" THEN Parsed(pop_peek(p), PValue("Number", Text(p)))
            ELSE IF kind = "NaN" THEN Parsed(pop_peek(p), PValue("Number", "NaN"))
            ELSE IF kind = "$param"
            THEN Run("try_parse_inline", pop_peek(p), <<PValue("Param", Text(p))>>)
            ELSE IF kind = "["
            THEN Run("parse_array", pop_peek(p), <<p.pos>>)
            ELSE IF kind = "|"
            THEN Run("parse_closure_or_mock", pop_peek(p), <<p.pos>>)
            ELSE IF kind = "IF"
            THEN IF QueryDepthExceeded(p) THEN DepthExceeded(p, "query")
                 ELSE LET r == LeaveQuery(Run("parse_if_stmt", pop_peek(EnterQuery(p)), <<>>)) IN
                      IF ~r.ok THEN r ELSE Parsed(r, Subquery("Ifelse", r.v))
            ELSE IF kind = "("
            THEN LET r == Run("parse_inner_subquery_or_coordinate", pop_peek(p), <<p.pos>>) IN
                 IF ~r.ok THEN r ELSE Run("try_parse_inline", r, <<r.v>>)
            ELSE IF kind = "/"
            THEN Parsed(pop_peek(p), PValue("Regex", RegexOf(Text(p))))
            ELSE IF kind \in StatementKeywords
            THEN Run("parse_inner_subquery", p, <<<<>>>>)
            ELSE IF ~can_start_ident(kind) THEN unexpected(p)
            ELSE IF PeekAt(p, 1) = "("
            THEN Run("parse_builtin", pop_peek(p), <<Text(p)>>)
            ELSE IF PeekAt(p, 1) = ":"
            THEN Run("parse_thing_or_range", pop_peek(p), <<Text(p)>>)
            ELSE IF has_data(PeekAt(p, 1)) THEN unexpected(pop_peek(p))
            ELSE IF p.table_as_field
            THEN Parsed(pop_peek(p), PIdiom(<<Field(Text(p))>>))
            ELSE Parsed(pop_peek(p), PValue("Table", Text(p)))
    IN IF ~value.ok THEN value
       ELSE IF ~continues_idiom(peek_kind(value)) THEN value
       ELSE LET parts == IF value.v.t = "Idiom" THEN value.v.parts
                         ELSE IF value.v.t = "Table" THEN <<Field(value.v.v)>>
                         ELSE <<[part |-> "Start", v |-> value.v]>>
                r == Run("parse_remaining_value_idiom", value, <<parts>>)
            IN IF ~r.ok THEN r ELSE Run("try_parse_inline", r, <<r.v>>)

\* Parser::parse_full_subquery
parse_full_subquery(p) ==
    IF peek_kind(p) = "("
    THEN Run("parse_inner_subquery", pop_peek(p), <<<<p.pos>>>>)
    ELSE IF peek_kind(p) = "IF"
    THEN IF QueryDepthExceeded(p) THEN DepthExceeded(p, "query")
         ELSE LET r == LeaveQuery(Run("parse_if_stmt", pop_peek(EnterQuery(p)), <<>>)) IN
              IF ~r.ok THEN r ELSE Parsed(r, Subquery("Ifelse", r.v))
    ELSE Run("parse_inner_subquery", p, <<<<>>>>)

\* Parser::Run("parse_inner_subquery_or_coordinate", start, <<>>)
parse_inner_subquery_or_coordinate(p, start) ==
    IF QueryDepthExceeded(p) THEN DepthExceeded(p, "query")
    ELSE LeaveQuery(Run("parse_inner_subquery_or_coordinate_inner", EnterQuery(p), <<start>>))

\* Parser::Run("parse_inner_subquery_or_coordinate_inner", start, <<>>)
parse_inner_subquery_or_coordinate_inner(p, start) ==
    LET kind == peek_kind(p) IN
    IF kind = "Number" /\ PeekAt(p, 1) = ","
    THEN LET number == NumberOf(Text(p))
             q == pop_peek(pop_peek(p))
         IN IF number.kind = "Decimal" \/ (number.kind = "Float" /\ number.nan)
            THEN NotACoordinate(q, p.pos)
            ELSE IF ~(peek_kind(q) = "Number" /\ NumberOf(Text(q)).kind # "Decimal")
            THEN unexpected(q)
            ELSE LET close == expect_closing_delimiter(pop_peek(q), ")", start) IN
                 IF ~close.ok THEN close
                 ELSE Parsed(close, [t |-> "Point", x |-> number.text, y |-> Text(q)])
    ELSE LET r == IF kind \in StatementKeywords THEN Run("parse_stmt", pop_peek(p), <<>>)
                  ELSE Run("parse_value_field", p, <<>>)
             sub == Subquery(SubqueryVariant(kind), r.v)
         IN IF ~r.ok THEN r
            ELSE IF disallowed_statement(r, p.pos, sub) THEN DisallowedStatement(r, p.pos)
            ELSE LET close == expect_closing_delimiter(r, ")", start) IN
                 IF ~close.ok THEN close ELSE Parsed(close, sub)

\* Parser::Run("parse_inner_subquery", start, <<>>)
parse_inner_subquery(p, start) ==
    IF QueryDepthExceeded(p) THEN DepthExceeded(p, "query")
    ELSE LeaveQuery(Run("parse_inner_subquery_inner", EnterQuery(p), <<start>>))

\* Parser::Run("parse_inner_subquery_inner", start, <<>>), start an Option<Span>
parse_inner_subquery_inner(p, start) ==
    LET kind == peek_kind(p)
        r == IF kind \in StatementKeywords THEN Run("parse_stmt", pop_peek(p), <<>>)
             ELSE Run("parse_value_field", p, <<>>)
        sub == Subquery(SubqueryVariant(kind), r.v)
    IN IF ~r.ok THEN r
       ELSE IF start = <<>> THEN Parsed(r, sub)
       ELSE IF disallowed_statement(r, p.pos, sub) THEN DisallowedStatement(r, p.pos)
       ELSE LET close == expect_closing_delimiter(r, ")", start[1]) IN
            IF ~close.ok THEN close ELSE Parsed(close, sub)

\* The descent into a production (Stk::run, or a plain call): the production
\* named, applied to the parser and its other arguments.
Run(name, p, a) ==
    CASE name = "parse_what_primary" -> parse_what_primary(p)
      [] name = "parse_idiom_expression" -> parse_idiom_expression(p)
      [] name = "parse_value_field" -> parse_value_field(p)
      [] name = "parse_value" -> parse_value(p)
      [] name = "try_parse_inline" -> try_parse_inline(p, a[1])
      [] name = "parse_args" -> parse_args(p, a[1], a[2], a[3])
      [] name = "parse_array" -> parse_array(p, a[1])
      [] name = "parse_closure_or_mock" -> parse_closure_or_mock(p, a[1])
      [] name = "parse_closure" -> parse_closure(p, a[1], a[2])
      [] name = "parse_closure_after_args" -> parse_closure_after_args(p, a[1])
      [] name = "parse_full_subquery" -> parse_full_subquery(p)
      [] name = "parse_inner_subquery_or_coordinate_inner" -> parse_inner_subquery_or_coordinate_inner(p, a[1])
      [] name = "parse_inner_subquery_or_coordinate" -> parse_inner_subquery_or_coordinate(p, a[1])
      [] name = "parse_inner_subquery_inner" -> parse_inner_subquery_inner(p, a[1])
      [] name = "parse_inner_subquery" -> parse_inner_subquery(p, a[1])
      [] name = "parse_if_stmt" -> parse_if_stmt(p)
      [] name = "parse_stmt" -> parse_stmt(p)
      [] name = "parse_remaining_value_idiom" -> parse_remaining_value_idiom(p, a[1])
      [] name = "parse_builtin" -> parse_builtin(p, a[1])
      [] name = "parse_thing_or_range" -> parse_thing_or_range(p, a[1])

\* ------------------------------------------------------------ the printer

\* The keyword of a statement subquery.
StatementOf(variant) == CHOOSE k \in StatementKeywords : SubqueryVariant(k) = variant

\* Display for sql::Value, token by token.  A list of values and the parts of
\* an idiom are printed by the same operator, as the pseudo-values List and
\* Parts.
RECURSIVE Display(_)
Display(v) ==
    CASE v.t = "List" ->
            IF v.items = <<>> THEN <<>>
            ELSE IF Len(v.items) = 1 THEN Display(v.items[1])
            ELSE Display(v.items[1]) \o <<",">> \o Display([t |-> "List", items |-> Tail(v.items)])
      [] v.t = "Parts" ->
            IF v.parts = <<>> THEN <<>>
            ELSE LET h == Head(v.parts) IN
                 (IF h.part = "Start" THEN Display(h.v)
                  ELSE IF v.first THEN <<h.v>> ELSE <<".", h.v>>)
                 \o Display([t |-> "Parts", parts |-> Tail(v.parts), first |-> FALSE])
      [] v.t \in {"Number", "Param", "Table"} -> <<v.v>>
      [] v.t = "Regex" -> <<RegexText(v.v)>>
      [] v.t = "Idiom" -> Display([t |-> "Parts", parts |-> v.parts, first |-> TRUE])
      [] v.t = "Subquery" ->
            IF v.kind = "Ifelse"
            THEN <<"IF">> \o Display(v.v.cond) \o <<"THEN">> \o Display(v.v.then) \o <<"END">>
            ELSE IF v.kind = "Value" THEN <<"(">> \o Display(v.v) \o <<")">>
            ELSE <<"(", StatementOf(v.kind)>> \o Display(v.v) \o <<")">>
      [] v.t = "Point" -> <<"(", v.x, ",", v.y, ")">>
      [] v.t = "Mock" ->
            <<"|", v.name, ":", v.from>>
            \o (IF v.kind = "Range" THEN <<"..", v.to>> ELSE <<>>) \o <<"|">>
      [] v.t = "Array" -> <<"[">> \o Display([t |-> "List", items |-> v.items]) \o <<"]">>
      [] v.t = "Function" ->
            <<v.name, "(">> \o Display([t |-> "List", items |-> v.args]) \o <<")">>
      [] v.t = "Thing" -> <<v.tb, ":", v.id>>
      [] v.t = "Anonymous" ->
            Display(v.subject) \o <<"(">> \o Display([t |-> "List", items |-> v.args]) \o <<")">>
      [] v.t = "Closure" ->
            <<"|">> \o Display([t |-> "List", items |-> [i \in DOMAIN v.args |-> PValue("Param", v.args[i])]])
            \o <<"|">> \o Display(v.body)

\* -------------------------------------------------------- the token streams

\* One opener or keyword around a value.
Wrappers == {"paren", "array", "if", "then", "return"}
Wrap(w, inner) ==
    CASE w = "paren" -> <<"(">> \o inner \o <<")">>
      [] w = "array" -> <<"[">> \o inner \o <<"]">>
      [] w = "if" -> <<"IF">> \o inner \o <<"THEN", "1", "END">>
      [] w = "then" -> <<"IF", "1", "THEN">> \o inner \o <<"END">>
      [] w = "return" -> <<"RETURN">> \o inner

\* A value inside up to n wrappers.
RECURSIVE Nested(_)
Nested(n) ==
    IF n = 0 THEN {<<"foo">>}
    ELSE LET inner == Nested(n - 1) IN inner \cup {Wrap(w, i) : w \in Wrappers, i \in inner}

\* `(`, a content, what follows it, and the closing `)` or its absence.
Contents ==
    {<<"foo">>, <<"KILL">>, <<"INFO">>, <<"1">>, <<"2dec">>, <<"1.5">>, <<"NaN">>, <<"$p">>,
     <<"foo", ".", "test">>, <<"KILL", ".", "foo">>, <<"RETURN", "foo">>,
     <<"RETURN", "KILL">>}
Follows == {<<>>, <<"KILL">>, <<"foo">>, <<",", "1.5">>, <<",", "2dec">>, <<",", "foo">>}
Parenthesised ==
    {<<"(">> \o c \o f \o e : c \in Contents, f \in Follows, e \in {<<")">>, <<>>}}

\* `|`, then a mock or a closure, well-formed or not.
Mocks ==
    {<<"|", n, ":", f>> \o r \o e :
        n \in {"test", "KILL", "1"}, f \in {"1", "1.5", "foo"},
        r \in {<<>>, <<"..", "1000">>, <<"..">>}, e \in {<<"|">>, <<>>, <<")">>}}
Closures ==
    {<<"|", "$p", "|", "foo">>, <<"|", "$p", ",", "$p", "|", "1">>, <<"|", "$p", "foo">>,
     <<"|", "$p">>, <<"|", "$p", ":", "1", "|">>}

\* `(`, a statement, `)`; and two parenthesised contents in a row.
Statements ==
    {<<"(", k, "foo", ")">> : k \in StatementKeywords}
    \cup {<<"(", "foo", ")", "(", "1", ")">>, <<"(", "(", "1", ",", "1.5", ")", ")", ")">>}
    \cup {<<"SELECT", "foo">>, <<"IF", "$p", "THEN", "/test/", "END">>, <<"[", "1", ",", "foo", "]">>}
    \cup {<<t>> : t \in RegexTexts \cup ParamTexts}
    \cup {<<"foo", "(", "1", ",", "$p", ")">>, <<"foo", ":", "test">>, <<"$p", ".", "foo">>,
          <<"(", "1", ")", ".", "foo">>, <<"|", "$p", "|", "foo", ".", "test">>}

Inputs == Nested(MaxDepth + 1) \cup Parenthesised \cup Mocks \cup Closures \cup Statements
Limits == [query : 0..MaxDepth, object : 0..MaxDepth]

\* ------------------------------------------------------- the entry points

\* One parse of the token stream, from one entry point.
Enter(name, p) ==
    /\ entry = "none"
    /\ entry' = name
    /\ parser' = p
    /\ UNCHANGED <<tokens, limits, original, raised, error, applied>>
    /\ UNCHANGED <<session, vars, lq, gql, pc, last, pre, result, calls, res, hooks, iam>>

ParseValueField == Enter("parse_value_field", parse_value_field(NewParser))
ParseWhatPrimary == Enter("parse_what_primary", parse_what_primary(NewParser))
ParseFullSubquery == Enter("parse_full_subquery", parse_full_subquery(NewParser))
\* The value of a parse that read the whole stream is printed, and the text
\* printed is the stream of the next parse.
FormatValue ==
    /\ entry = "parse_value_field"
    /\ parser.ok /\ parser.pos = Len(tokens) + 1
    /\ original = None
    /\ original' = Some([text |-> tokens, v |-> parser.v])
    /\ tokens' = Display(parser.v)
    /\ entry' = "none"
    /\ parser' = NewParser
    /\ UNCHANGED <<limits, raised, error, applied>>
    /\ UNCHANGED <<session, vars, lq, gql, pc, last, pre, result, calls, res, hooks, iam>>

\* The production behind `(` in an expression, entered after the `(`.
ParseInnerSubqueryOrCoordinate ==
    /\ tokens[1] = "("
    /\ Enter("parse_inner_subquery_or_coordinate",
             parse_inner_subquery_or_coordinate(pop_peek(NewParser), 1))

\* ================================================================ errors
\*
\* err/mod.rs.  An err::Error is a record tagged with its variant; a
\* library's error is a record tagged with its library, the variant the
\* conversion matches on (kind, detail) and its own message.

InvalidAuth == [t |-> "InvalidAuth"]
TxKeyAlreadyExists == [t |-> "TxKeyAlreadyExists"]
TxConditionNotMet == [t |-> "TxConditionNotMet"]
TxKeyTooLarge == [t |-> "TxKeyTooLarge"]
TxTooLarge == [t |-> "TxTooLarge"]
Tx(msg) == [t |-> "Tx", msg |-> msg]
Ds(msg) == [t |-> "Ds", msg |-> msg]
CoerceTo(from, into) == [t |-> "CoerceTo", from |-> from, into |-> into]
ConvertTo(from, into) == [t |-> "ConvertTo", from |-> from, into |-> into]
SetCheck(name, value, check) ==
    [t |-> "SetCheck", name |-> name, value |-> value, check |-> check]
FunctionCheck(name, value, check) ==
    [t |-> "FunctionCheck", name |-> name, value |-> value, check |-> check]

\* Value::to_string(): a string in single quotes, NONE, NULL, the rest as
\* written.
ValueText(v) ==
    IF v.t = "Strand" THEN <<"'", v.v, "'">>
    ELSE IF v.t = "None" THEN <<"NONE">>
    ELSE IF v.t = "Null" THEN <<"NULL">>
    ELSE <<v.v>>

\* Error::to_string(), from the #[error(...)] of each variant: the pieces of
\* the message, in order.
ErrorText(e) ==
    CASE e.t = "InvalidAuth" -> <<"There was a problem with authentication">>
      [] e.t = "TxKeyAlreadyExists" -> <<"The key being inserted already exists">>
      [] e.t = "TxConditionNotMet" -> <<"Value being checked was not correct">>
      [] e.t = "TxKeyTooLarge" -> <<"Record id or key is too large">>
      [] e.t = "TxTooLarge" -> <<"Transaction is too large">>
      [] e.t = "Tx" -> <<"There was a problem with a datastore transaction: ", e.msg>>
      [] e.t = "Ds" -> <<"There was a problem with the underlying datastore: ", e.msg>>
      [] e.t = "CoerceTo" -> <<"Expected a ", e.into, " but found ">> \o ValueText(e.from)
      [] e.t = "ConvertTo" ->
            <<"Expected a ", e.into, " but cannot convert ">> \o ValueText(e.from)
            \o <<" into a ", e.into>>
      [] e.t = "SetCheck" ->
            <<"Found ">> \o e.value \o <<" for param $", e.name, ", but expected a ", e.check>>
      [] e.t = "FunctionCheck" ->
            <<"There was a problem running the ", e.name,
              " function. Expected this function to return a value of type ", e.check,
              ", but found ">> \o e.value

\* impl Serialize for Error: the error as the client sees it.
Serialize(e) == ErrorText(e)

\* A library's error, and its to_string().
Foreign(lib, kind, detail, msg) == [lib |-> lib, kind |-> kind, detail |-> detail, msg |-> msg]
ForeignText(e) == e.msg

\* Mutant of FromBase64Error: the decoder's message is passed on.
FromBase64ErrorTold(e) == Tx(ForeignText(e))
\* impl From<Base64Error> and impl From<JWTError>
FromBase64Error(e) == InvalidAuth
FromJWTError(e) == InvalidAuth

\* impl From<echodb::err::Error>, From<indxdb::err::Error>, From<tikv::Error>
FromEchodb(e) ==
    IF e.kind = "KeyAlreadyExists" THEN TxKeyAlreadyExists
    ELSE IF e.kind = "ValNotExpectedValue" THEN TxConditionNotMet
    ELSE Tx(ForeignText(e))
FromIndxdb(e) ==
    IF e.kind = "KeyAlreadyExists" THEN TxKeyAlreadyExists
    ELSE IF e.kind = "ValNotExpectedValue" THEN TxConditionNotMet
    ELSE Tx(ForeignText(e))
FromTikv(e) ==
    IF e.kind = "DuplicateKeyInsertion" THEN TxKeyAlreadyExists
    ELSE IF e.kind = "KeyError" /\ e.detail = "KeyTooLarge" THEN TxKeyTooLarge
    ELSE IF e.kind = "RegionError" /\ e.detail = "raft_entry_too_large" THEN TxTooLarge
    ELSE Tx(ForeignText(e))
\* impl From<rocksdb::Error>, From<surrealkv::Error>, From<FdbError>,
\* From<TransactionCommitError>: the error is not looked into.
FromRocksdb(e) == Tx(ForeignText(e))
FromSurrealkv(e) == Tx(ForeignText(e))
FromFdbError(e) == Ds(ForeignText(e))
FromTransactionCommitError(e) == Tx(ForeignText(e))

\* `?` and .into(): the impl chosen by the type of the error; an err::Error
\* stays what it is.
From(e) ==
    CASE e.lib = "base64" -> FromBase64Error(e)
      [] e.lib = "jsonwebtoken" -> FromJWTError(e)
      [] e.lib = "echodb" -> FromEchodb(e)
      [] e.lib = "indxdb" -> FromIndxdb(e)
      [] e.lib = "tikv" -> FromTikv(e)
      [] e.lib = "rocksdb" -> FromRocksdb(e)
      [] e.lib = "surrealkv" -> FromSurrealkv(e)
      [] e.lib = "foundationdb" -> FromFdbError(e)
      [] e.lib = "foundationdb commit" -> FromTransactionCommitError(e)
      [] e.lib = "core" -> e.e

\* Mutant of set_check_from_coerce: the value is dropped from the check.
set_check_without_value(e, name) ==
    IF e.t = "CoerceTo" THEN SetCheck(name, <<>>, e.into) ELSE e
\* Error::set_check_from_coerce and Error::function_check_from_coerce
set_check_from_coerce(e, name) ==
    IF e.t = "CoerceTo" THEN SetCheck(name, ValueText(e.from), e.into) ELSE e
function_check_from_coerce(e, name) ==
    IF e.t = "CoerceTo" THEN FunctionCheck(name, ValueText(e.from), e.into) ELSE e

\* The errors raised.  Every storage backend reports its failures in its own
\* variants; the ones whose conversion does not look into the error are
\* given the same three conditions as the others.
AuthErrors ==
    {Foreign("base64", k, "", m) :
        k \in {"InvalidByte", "InvalidLength"}, m \in {"invalid byte", "invalid length"}}
    \cup {Foreign("jsonwebtoken", k, "", m) :
            k \in {"InvalidToken", "ExpiredSignature"}, m \in {"InvalidToken", "ExpiredSignature"}}
Backends ==
    {"echodb", "indxdb", "tikv", "rocksdb", "surrealkv", "foundationdb", "foundationdb commit"}
DuplicateKind(lib) == IF lib = "tikv" THEN "DuplicateKeyInsertion" ELSE "KeyAlreadyExists"
BackendErrors ==
    {Foreign(lib, DuplicateKind(lib), "", "key already exists") : lib \in Backends}
    \cup {Foreign(lib, "ValNotExpectedValue", "", "not the expected value") : lib \in Backends}
    \cup {Foreign(lib, "Other", "", "io error") : lib \in Backends}
    \cup {Foreign("tikv", "KeyError", d, "key error") : d \in {"KeyTooLarge", "NotFound"}}
    \cup {Foreign("tikv", "RegionError", d, "region error") :
            d \in {"raft_entry_too_large", "epoch_not_match"}}
CoreErrors ==
    {CoerceTo(v, k) : v \in {VStrand("x"), VNumber("1"), VNone}, k \in {"int", "string"}}
    \cup {ConvertTo(VStrand("x"), "int"), InvalidAuth, TxKeyAlreadyExists, Tx("io error"),
          SetCheck("y", <<"1">>, "string"), FunctionCheck("y", <<"1">>, "string")}
Raised == AuthErrors \cup BackendErrors \cup {[lib |-> "core", e |-> e] : e \in CoreErrors}
CheckNames == {"x", "y"}

\* No error in hand.
NoError == raised = None /\ error = None /\ applied = <<>>

\* The error is converted into err::Error where it crosses into the core.
Convert ==
    /\ raised # None /\ error = None
    /\ error' = Some(From(raised[1]))
    /\ applied' = <<[op |-> "from", name |-> ""]>>
    /\ UNCHANGED raised
    /\ UNCHANGED <<tokens, limits, entry, parser, original>>
    /\ UNCHANGED <<session, vars, lq, gql, pc, last, pre, result, calls, res, hooks, iam>>

\* One of the two transforms is applied to the error in hand.
Transform(op, e) ==
    /\ error # None /\ Len(applied) <= MaxApplied
    /\ error' = Some(e)
    /\ applied' = Append(applied, op)
    /\ UNCHANGED raised
    /\ UNCHANGED <<tokens, limits, entry, parser, original>>
    /\ UNCHANGED <<session, vars, lq, gql, pc, last, pre, result, calls, res, hooks, iam>>
SetCheckFromCoerce ==
    \E name \in CheckNames :
        Transform([op |-> "set", name |-> name], set_check_from_coerce(error[1], name))
FunctionCheckFromCoerce ==
    \E name \in CheckNames :
        Transform([op |-> "function", name |-> name], function_check_from_coerce(error[1], name))

\* ------------------------------------------------------- specifications

GqlModes == {"stub", "off", "unsupported", "on"}

\* No token stream: the parser is not used.
NoParse ==
    /\ tokens = <<>>
    /\ limits = [query |-> 0, object |-> 0]
    /\ entry = "none"
    /\ parser = NewParser
    /\ original = None
    /\ NoError

\* A fresh connection: Session::default() with the realtime flag as the
\* transport sets it, no variables, and the capabilities of the context.
Init ==
    /\ NoParse
    /\ session \in [ns : {None}, db : {None}, au : {"anon"}, rt : BOOLEAN]
    /\ vars = EmptyMap
    /\ lq \in BOOLEAN
    /\ gql \in GqlModes
    /\ pc = "idle"
    /\ last = NoCall
    /\ pre = [session |-> session, vars |-> vars]
    /\ result = VNone
    /\ calls = <<>> /\ res = <<>> /\ hooks = <<>>
    /\ iam = None

\* The default build: no GraphQL.
InitStub == Init /\ gql = "stub"

\* The whole program: any method, on either surface.  The specifications
\* after it are this one restricted to a group of methods, each group holding
\* every method that writes the state its properties read.
Next ==
    \/ \E m \in Method : \E p \in Params(m) : execute(m, p)
    \/ \E m \in Method : \E p \in Params(m) : execute_immut(m, p)
    \/ Reply
Spec == Init /\ [][Next]_vars_all

\* The parser alone: a token stream and the caps, parsed once from one of
\* the entry points; the connection stays fresh.
InitParser ==
    /\ tokens \in Inputs
    /\ limits \in Limits
    /\ entry = "none"
    /\ parser = NewParser
    /\ original = None
    /\ NoError
    /\ session = DefaultSession
    /\ vars = EmptyMap
    /\ lq = FALSE
    /\ gql = "stub"
    /\ pc = "idle"
    /\ last = NoCall
    /\ pre = [session |-> session, vars |-> vars]
    /\ result = VNone
    /\ calls = <<>> /\ res = <<>> /\ hooks = <<>>
    /\ iam = None
NextParser ==
    \/ ParseValueField \/ ParseWhatPrimary \/ ParseFullSubquery
    \/ ParseInnerSubqueryOrCoordinate
    \/ FormatValue
SpecParser == InitParser /\ [][NextParser]_vars_all

\* The methods that take &mut self.
MutatingMethods ==
    {"use", "signup", "signin", "invalidate", "authenticate", "kill", "live", "set", "unset"}

\* Every method on both surfaces, with few params each; on the read-only
\* surface the methods that take &mut self come with all their params.
NextDispatch ==
    \/ \E m \in Method : \E p \in FewParams(m) : execute(m, p)
    \/ \E m \in Method :
        \E p \in IF m \in MutatingMethods THEN Params(m) ELSE FewParams(m) :
            execute_immut(m, p)
    \/ Reply
SpecDispatch == Init /\ [][NextDispatch]_vars_all

\* The methods that change the session, and those that change the variables.
SessionMethods ==
    {"use", "signup", "signin", "invalidate", "authenticate", "set", "unset"}
NextSession ==
    \/ \E m \in SessionMethods : \E p \in Params(m) : execute(m, p)
    \/ Reply
SpecSession == InitStub /\ [][NextSession]_vars_all

\* The methods that read and write the variables and run programs.
QueryMethods == {"set", "unset", "query", "kill", "live"}
NextQuery ==
    \/ \E m \in QueryMethods : \E p \in Params(m) : execute(m, p)
    \/ \E m \in QueryMethods : \E p \in Params(m) : execute_immut(m, p)
    \/ Reply
SpecQuery == InitStub /\ [][NextQuery]_vars_all

\* The methods that work on records, call functions and bridge GraphQL, with
\* the two that change the variables they bind over.
RecordMethods == CrudMethods \cup {"info", "version", "run", "graphql", "set", "unset"}
NextRecord ==
    \/ \E m \in RecordMethods : \E p \in Params(m) : execute(m, p)
    \/ \E m \in RecordMethods : \E p \in Params(m) : execute_immut(m, p)
    \/ Reply
SpecRecord == Init /\ [][NextRecord]_vars_all

\* The methods that select the namespace and the database or hand the session
\* to the IAM collaborator, each of the latter also cancelled while it waits.
CancelMethods == {"use"} \cup Suspending
NextCancel ==
    \/ \E m \in CancelMethods : \E p \in Params(m) : execute(m, p)
    \/ \E m \in Suspending : \E p \in Params(m) : cancelled(m, p)
    \/ Reply
SpecCancel == InitStub /\ [][NextCancel]_vars_all

\* The handlers that bind parameters of their own over the session variables,
\* on a connection where variables of those names, and of another name, were
\* stored earlier with set.
StoredNames == {"id", "tb", "what", "data", "from", "kind", "to", "a"}
StoredVars ==
    {EmptyMap, [k \in {"a"} |-> VNumber("1")], [k \in StoredNames |-> VNumber("2")]}
BindMethods == {"kill", "live"} \cup CrudMethods
InitBind ==
    /\ NoParse
    /\ session \in [ns : {None}, db : {None}, au : {"anon"}, rt : BOOLEAN]
    /\ vars \in StoredVars
    /\ lq \in BOOLEAN
    /\ gql = "stub"
    /\ pc = "idle"
    /\ last = NoCall
    /\ pre = [session |-> session, vars |-> vars]
    /\ result = VNone
    /\ calls = <<>> /\ res = <<>> /\ hooks = <<>>
    /\ iam = None
NextBind ==
    \/ \E m \in BindMethods : \E p \in Params(m) : execute(m, p)
    \/ \E m \in BindMethods : \E p \in Params(m) : execute_immut(m, p)
    \/ Reply
SpecBind == InitBind /\ [][NextBind]_vars_all

\* The error model alone: one error raised, converted, then transformed; the
\* connection stays fresh and nothing is parsed.
InitError ==
    /\ raised \in {Some(e) : e \in Raised}
    /\ error = None
    /\ applied = <<>>
    /\ tokens = <<>>
    /\ limits = [query |-> 0, object |-> 0]
    /\ entry = "none"
    /\ parser = NewParser
    /\ original = None
    /\ session = DefaultSession
    /\ vars = EmptyMap
    /\ lq = FALSE
    /\ gql = "stub"
    /\ pc = "idle"
    /\ last = NoCall
    /\ pre = [session |-> session, vars |-> vars]
    /\ result = VNone
    /\ calls = <<>> /\ res = <<>> /\ hooks = <<>>
    /\ iam = None
NextError == Convert \/ SetCheckFromCoerce \/ FunctionCheckFromCoerce
SpecError == InitError /\ [][NextError]_vars_all

\* ------------------------------------------------------------ properties

\* A call of `method` on the mutating surface has been answered.
Answered(method) == pc = "done" /\ last.surface = "execute" /\ last.method = method

\* Every variable of m other than k is in n with the same value, and n has
\* no variable other than k that m lacks.
SameExcept(m, n, k) ==
    /\ DOMAIN n \ {k} = DOMAIN m \ {k}
    /\ \A x \in DOMAIN m \ {k} : n[x] = m[x]

\* C1: use(ns, db) with ns = Null and db not Null returns InvalidParams and
\* leaves the namespace and the database as they were.
C1_UseNullNsRejected ==
    (Answered("use") /\ Len(last.params) = 2
        /\ last.params[1] = VNull /\ last.params[2] # VNull)
    => /\ result = Err("InvalidParams")
       /\ session.ns = pre.session.ns
       /\ session.db = pre.session.db
C1_Witness ==
    /\ Answered("use")
    /\ last.params = <<VNull, VStrand("x")>>
    /\ pre.session.ns = Some("y")
    /\ result = Err("InvalidParams")
    /\ session.ns = Some("y")

\* C2: an accepted use(ns, db) treats each argument by itself: a Strand sets
\* the field to that name, Null clears it, None leaves it; and no use touches
\* the authentication, the realtime flag or the variables.
UseArgEffect(arg, before, after) ==
    /\ arg.t = "Strand" => after = Some(arg.v)
    /\ arg = VNull => after = None
    /\ arg = VNone => after = before
C2_UseArgumentsIndependent ==
    Answered("use")
    => /\ (result = VNone =>
            /\ Len(last.params) = 2
            /\ UseArgEffect(last.params[1], pre.session.ns, session.ns)
            /\ UseArgEffect(last.params[2], pre.session.db, session.db))
       /\ session.au = pre.session.au
       /\ session.rt = pre.session.rt
       /\ vars = pre.vars
C2_Witness ==
    /\ Answered("use")
    /\ last.params = <<VNone, VStrand("x")>>
    /\ result = VNone
    /\ pre.session.ns = Some("y") /\ pre.session.db = None
    /\ session.ns = Some("y") /\ session.db = Some("x")
    /\ session.au = "user"
    /\ vars # EmptyMap

\* C3 (as claimed): use(ns, db) where either argument is not a Strand, Null
\* or None returns InvalidParams and changes neither namespace nor database.
C3_UseOtherValueRejected ==
    (Answered("use") /\ Len(last.params) = 2
        /\ \E i \in 1..2 : last.params[i].t \notin {"Strand", "Null", "None"})
    => /\ result = Err("InvalidParams")
       /\ session.ns = pre.session.ns
       /\ session.db = pre.session.db

\* The IAM collaborator was called by signup or signin and failed.
IamFailed ==
    /\ pc = "done" /\ last.method \in {"signup", "signin"}
    /\ iam # None /\ result = Err("Thrown")

\* C4 (as claimed): if the IAM collaborator fails during signup or signin,
\* the session after the call equals the session before it, whatever the
\* collaborator did to the session it was handed.
C4_SessionRestoredOnFailure == IamFailed => session = pre.session

\* C4 (amended): if the IAM collaborator fails during signup or signin, the
\* session after the call is the session as the collaborator left it: it is
\* written back, not restored and not reset, and so equals the session
\* before the call when the collaborator changed nothing.
C4_SessionWrittenBackOnFailure ==
    IamFailed
    => /\ session = iam[1]
       /\ (iam[1] = pre.session => session = pre.session)
C4_Witness ==
    /\ IamFailed
    /\ last.method = "signin"
    /\ pre.session = [ns |-> Some("y"), db |-> Some("y"), au |-> "anon", rt |-> TRUE]
    /\ iam[1].au = "user"
    /\ session = [ns |-> Some("y"), db |-> Some("y"), au |-> "user", rt |-> TRUE]

\* C5: on the read-only surface each of use, signup, signin, invalidate,
\* authenticate, kill, live, set, unset returns MethodNotFound whatever the
\* params, without touching the session, the variables or the engine; on the
\* mutating surface only `unknown` is answered MethodNotFound by the dispatch
\* itself, every other method but ping reaching its handler.
C5_ReadOnlySurfaceRejectsMutators ==
    /\ (pc = "done" /\ last.surface = "execute_immut" /\ last.method \in MutatingMethods)
       => /\ result = Err("MethodNotFound")
          /\ session = pre.session /\ vars = pre.vars
          /\ calls = <<>> /\ hooks = <<>> /\ iam = None
    /\ (pc = "done" /\ last.surface = "execute")
       => /\ (last.handler = "none" /\ result = Err("MethodNotFound"))
             => last.method = "unknown"
          /\ last.method \notin {"unknown", "ping"} => last.handler # "none"
C5_Witness ==
    /\ pc = "done" /\ last.surface = "execute_immut" /\ last.method = "unset"
    /\ last.params = <<VStrand("a")>>
    /\ "a" \in DOMAIN vars
    /\ result = Err("MethodNotFound")

\* The variables the caller of query passed.
CallerVars ==
    IF Len(last.params) = 2 /\ last.params[2].t = "Object"
    THEN ObjFields(last.params[2].v) ELSE EmptyMap

C7_SetStoresOrRemoves ==
    (Answered("set") /\ res # <<>>)
    => LET key == last.params[1].v
           computed == res[1].result
       IN /\ result = VNull
          /\ IF computed = VNone
             THEN key \notin DOMAIN vars
             ELSE key \in DOMAIN vars /\ vars[key] = computed
          /\ SameExcept(pre.vars, vars, key)
C7_Witness ==
    /\ Answered("set")
    /\ last.params = <<VStrand("a"), VNone>>
    /\ pre.vars = [k \in {"a", "what"} |-> VNumber("2")]
    /\ res # <<>> /\ res[1].result = VNone
    /\ vars = [k \in {"what"} |-> VNumber("2")]
    /\ result = VNull

\* C8 (as claimed): set(key, value) computes the value with every variable
\* stored in the session visible at its stored value, the one stored under
\* `key` included.
C8_SetSeesEveryVariable ==
    (Answered("set") /\ calls # <<>>)
    => LET passed == calls[1].vars[1] IN
       \A k \in DOMAIN pre.vars : k \in DOMAIN passed /\ passed[k] = pre.vars[k]

\* C8 (amended): set(key, value) computes the value with every variable
\* stored under another name visible at its stored value, and with `key`
\* itself bound to None: after set(k, 1), the value of set(k, $k) is
\* computed with $k = None.
C8_SetSeesOtherVariables ==
    (Answered("set") /\ calls # <<>>)
    => LET passed == calls[1].vars[1]
           key == last.params[1].v
       IN /\ DOMAIN passed = DOMAIN pre.vars \cup {key}
          /\ \A k \in DOMAIN pre.vars \ {key} : passed[k] = pre.vars[k]
          /\ passed[key] = VNone
C8_Witness ==
    /\ Answered("set")
    /\ last.params = <<VStrand("a"), VParam("a")>>
    /\ pre.vars = [k \in {"a", "what"} |-> VNumber("1")]
    /\ calls # <<>>
    /\ calls[1].vars[1] = [k \in {"a", "what"} |-> IF k = "a" THEN VNone ELSE VNumber("1")]
    /\ res # <<>> /\ res[1].result = VNone
    /\ "a" \notin DOMAIN vars

\* C9: unset(key) with a Strand key removes the key and returns Null whether
\* or not it was there, leaves every other variable alone, and changes
\* nothing when the key was already absent (a second unset); a key that is
\* no Strand, or a wrong number of arguments, returns InvalidParams and
\* leaves the variables alone.
C9_UnsetRemovesKey ==
    Answered("unset")
    => IF Len(last.params) = 1 /\ last.params[1].t = "Strand"
       THEN LET key == last.params[1].v IN
            /\ result = VNull
            /\ key \notin DOMAIN vars
            /\ SameExcept(pre.vars, vars, key)
            /\ (key \notin DOMAIN pre.vars => vars = pre.vars)
       ELSE result = Err("InvalidParams") /\ vars = pre.vars
C9_Witness ==
    /\ Answered("unset")
    /\ last.params = <<VStrand("a")>>
    /\ pre.vars = [k \in {"a", "what"} |-> VNumber("1")]
    /\ vars = [k \in {"what"} |-> VNumber("1")]
    /\ result = VNull

\* The params of query, kill or live pass the handler's own checks.
WellFormed ==
    CASE last.method = "query" ->
            /\ Len(last.params) \in 1..2
            /\ last.params[1].t \in {"Query", "Strand"}
            /\ (Len(last.params) = 2 => last.params[2].t \in {"Object", "None", "Null"})
      [] last.method = "kill" -> Len(last.params) = 1
      [] last.method = "live" -> Len(last.params) \in 1..2
      [] OTHER -> FALSE

\* C10: when LQ_SUPPORT is false and the session's realtime flag is true,
\* query, kill and live (with params that pass the handler's own checks)
\* return BadLQConfig, and with any params they make no call to the storage
\* engine and invoke no live-query hook.
C10_NoLiveSupportRefuses ==
    (pc = "done" /\ last.handler \in {"query", "kill", "live"} /\ ~lq /\ pre.session.rt)
    => /\ WellFormed => result = Err("BadLQConfig")
       /\ calls = <<>> /\ res = <<>> /\ hooks = <<>>
C10_Witness ==
    /\ pc = "done" /\ last.handler = "kill"
    /\ ~lq /\ pre.session.rt
    /\ last.params = <<VUuid("u1")>>
    /\ "a" \in DOMAIN vars
    /\ result = Err("BadLQConfig") /\ calls = <<>>

\* The Uuids of the responses of one query type whose result is an ok Uuid,
\* in the order of the responses.
RECURSIVE UuidsOf(_, _)
UuidsOf(rs, qt) ==
    IF rs = <<>> THEN <<>>
    ELSE (IF Head(rs).query_type = qt /\ Head(rs).result.t = "Uuid"
          THEN <<Head(rs).result.v>> ELSE <<>>) \o UuidsOf(Tail(rs), qt)

\* The Uuids one hook was invoked with, in the order of the invocations.
RECURSIVE HookIds(_, _)
HookIds(hs, kind) ==
    IF hs = <<>> THEN <<>>
    ELSE (IF Head(hs).kind = kind THEN <<Head(hs).id>> ELSE <<>>)
         \o HookIds(Tail(hs), kind)

\* How many responses have the query type Kill.
RECURSIVE Kills(_)
Kills(rs) ==
    IF rs = <<>> THEN 0
    ELSE (IF Head(rs).query_type = "Kill" THEN 1 ELSE 0) + Kills(Tail(rs))

\* query, kill or live has handed its program to the storage engine.
Executed == pc = "done" /\ last.handler \in {"query", "kill", "live"} /\ calls # <<>>

\* C11: after query, kill or live has executed its program, handle_live has
\* been invoked once for each Live response with an ok Uuid, with that Uuid
\* and in the order of the responses; no hook has been invoked for any other
\* response that is not a Kill; and query returns the engine's list as it is.
C11_LiveHooksInResponseOrder ==
    Executed
    => /\ HookIds(hooks, "live") = UuidsOf(res, "Live")
       /\ Len(hooks) <= Len(UuidsOf(res, "Live")) + Kills(res)
       /\ last.handler = "query" => result \in {Responses, Err("Thrown")}

\* C12: a Kill response with an ok result that answers kill(id) has
\* handle_kill invoked once, whatever the ok value is.
C12_KillAlwaysHooks ==
    (Executed /\ last.handler = "kill" /\ res # <<>>
        /\ Head(res).query_type = "Kill" /\ Head(res).result.t # "Err")
    => Len(SelectSeq(hooks, LAMBDA h : h.kind = "kill")) = 1

\* C13: when LQ_SUPPORT is false no hook runs, whatever the storage engine
\* answered, and the handler returns.
C13_NoSupportNoHook ==
    (Executed /\ ~lq) => hooks = <<>> /\ result.t # "Panic"

\* A handler has handed its one-statement program to the storage engine.
Ran(handlers) == pc = "done" /\ last.handler \in handlers /\ calls # <<>>

\* C14: select, insert, create, upsert, update, merge, patch and delete bind
\* a bare-string `what` as a table and anything else as it is; an engine
\* error or an error in the first response is returned as an error; otherwise
\* a Thing `what` returns the first element of the first response's result
\* and any other `what` returns that result unchanged.
C14_ThingReturnsSingleValue ==
    Ran(CrudMethods \ {"relate"})
    => LET what == last.params[1]
           bound == calls[1].vars[1]["what"]
       IN /\ bound = (IF what.t = "Strand" THEN [t |-> "Table", v |-> what.v] ELSE what)
          /\ IF res = <<>> \/ res[1].result.t = "Err" THEN result.t = "Err"
             ELSE IF what.t # "Thing" THEN result = res[1].result
             ELSE IF res[1].result.t = "Array" /\ ArrayItems(res[1].result.v) # <<>>
             THEN result = ArrayItems(res[1].result.v)[1]
             ELSE result = VNone
C14_Witness ==
    /\ Ran({"select"})
    /\ last.params = <<VThing("r1")>>
    /\ res = <<[query_type |-> "Other", result |-> VArray("r1,r2")]>>
    /\ result = VThing("r1")

\* The arguments of run, padded: name, version, args.
RunArg(i) == IF i <= Len(last.params) THEN last.params[i] ELSE VNone
RunTyped ==
    /\ Len(last.params) \in 1..3
    /\ RunArg(1).t = "Strand"
    /\ RunArg(2).t \in {"Strand", "None", "Null"}
    /\ RunArg(3).t \in {"Array", "None", "Null"}
RunArgs == IF RunArg(3).t = "Array" THEN ArrayItems(RunArg(3).v) ELSE <<>>

\* C15: run(name, version, args) with a name, version or args of the wrong
\* type returns InvalidParams; otherwise fn::foo calls the custom function
\* foo with the args, ml::m without a version returns InvalidParams without
\* an engine call, ml::m with a version calls the model m of that version,
\* and any other name calls the built-in function of that full name.
C15_RunDispatchesOnPrefix ==
    (pc = "done" /\ last.handler = "run")
    => IF ~RunTyped THEN result = Err("InvalidParams") /\ calls = <<>>
       ELSE IF RunArg(1).v = "fn::foo"
       THEN /\ Len(calls) = 1
            /\ calls[1].arg = [t |-> "Custom", v |-> "foo"]
            /\ calls[1].fargs = RunArgs
       ELSE IF RunArg(1).v = "ml::m"
       THEN IF RunArg(2).t # "Strand"
            THEN result = Err("InvalidParams") /\ calls = <<>>
            ELSE /\ Len(calls) = 1
                 /\ calls[1].arg = [t |-> "Model", v |-> "m"]
                 /\ calls[1].version = Some(RunArg(2).v)
                 /\ calls[1].fargs = RunArgs
       ELSE /\ Len(calls) = 1
            /\ calls[1].arg = [t |-> "Normal", v |-> RunArg(1).v]
            /\ calls[1].fargs = RunArgs

\* C16: with GraphQL enabled and supported, graphql(query) without options
\* does not return InvalidParams.
C16_GraphqlOptionsOptional ==
    (pc = "done" /\ last.handler = "graphql" /\ gql = "on"
        /\ Len(last.params) = 1 /\ last.params[1].t = "Strand")
    => result # Err("InvalidParams")

\* The stream is `(`, then at least two tokens, parsed as an expression with
\* room for one subquery.
InParentheses ==
    /\ entry = "parse_value_field" /\ limits.query > 0
    /\ Len(tokens) >= 3 /\ tokens[1] = "("

\* C17: a parenthesised coordinate whose first number is NaN or a decimal,
\* such as (NaN, 1.0), is rejected with the diagnostic explained by
\* "coordinate numbers can't be NaN or a decimal".
C17_CoordinateNaNRejected ==
    (InParentheses /\ tokens[3] = ","
        /\ (tokens[2] = "NaN"
            \/ (TokenKind(tokens[2]) = "Number" /\ NumberOf(tokens[2]).kind = "Decimal")))
    => /\ ~parser.ok
       /\ parser.v.kind = "UnexpectedExplain"
       /\ parser.v.explain = "coordinate numbers can't be NaN or a decimal"

\* The parser after the content of the parentheses, parsed on its own: a
\* statement after its keyword, any other content as a value.
Content ==
    LET p == EnterQuery(pop_peek(NewParser)) IN
    IF TokenKind(tokens[2]) \in StatementKeywords THEN parse_stmt(pop_peek(p))
    ELSE parse_value_field(p)
SinglePartIdiom(v) == v.t = "Idiom" /\ Len(v.parts) = 1
\* The content is parsed and the token after it does not close the parentheses.
NotClosed ==
    /\ entry \in {"parse_value_field", "parse_what_primary", "parse_full_subquery"}
    /\ limits.query > 0
    /\ Len(tokens) >= 2 /\ tokens[1] = "("
    /\ ~(entry = "parse_value_field" /\ TokenKind(tokens[2]) = "Number"
            /\ Len(tokens) >= 3 /\ tokens[3] = ",")
    /\ Content.ok /\ peek_kind(Content) # ")"
Generic == ~parser.ok /\ parser.v.kind = "UnclosedDelimiter" /\ parser.v.at = 1

C19_EveryProductionChecksDepth ==
    entry # "none"
    => /\ parser.deepest.query <= limits.query
       /\ parser.deepest.object <= limits.object
       /\ parser.query_recursion = 0 /\ parser.object_recursion = 0

\* The token that must close a mock: after `name : from`, or after
\* `name : from .. to`.
MockClose == IF Len(tokens) >= 5 /\ tokens[5] = ".." THEN 7 ELSE 5
Integer(tok) == TokenKind(tok) = "Number" /\ NumberOf(tok).kind = "Int"

\* C20: after `|`, a `$param` starts a closure and anything else is parsed
\* as a mock: name : from | is Mock::Count(name, from), name : from .. to |
\* is Mock::Range(name, from, to), and a mock without its closing `|` is an
\* error.
C20_PipeStartsClosureOrMock ==
    (entry \in {"parse_value_field", "parse_what_primary"}
        /\ Len(tokens) >= 2 /\ tokens[1] = "|")
    => IF TokenKind(tokens[2]) = "$param"
       THEN parser.ok => parser.v.t = "Closure"
       ELSE /\ parser.ok
               => /\ parser.v.t = "Mock" /\ parser.v.name = tokens[2]
                  /\ parser.v.from = tokens[4]
                  /\ IF tokens[5] = ".."
                     THEN parser.v.kind = "Range" /\ parser.v.to = tokens[6]
                     ELSE parser.v.kind = "Count"
            /\ (Len(tokens) < MockClose \/ tokens[MockClose] # "|") => ~parser.ok
            /\ (/\ Len(tokens) = MockClose /\ tokens[MockClose] = "|"
                /\ can_start_ident(TokenKind(tokens[2])) /\ tokens[3] = ":"
                /\ Integer(tokens[4])
                /\ (MockClose = 7 => Integer(tokens[6])))
               => parser.ok
C20_Witness ==
    /\ entry = "parse_value_field"
    /\ tokens = <<"|", "test", ":", "1", "..", "1000", "|">>
    /\ parser.ok
    /\ parser.v = [t |-> "Mock", kind |-> "Range", name |-> "test", from |-> "1",
                   to |-> "1000"]

\* A verification of the token by authenticate has failed.
VerifyFailed ==
    /\ Answered("authenticate")
    /\ iam # None /\ result = Err("Thrown")

\* C26 (as claimed): if the verification of the token fails during
\* authenticate, the session after the call equals the session before it:
\* namespace, database, authentication and realtime flag are kept.
C26_AuthenticateFailureKeepsSession == VerifyFailed => session = pre.session

\* C27 (as claimed): when a signup, signin or authenticate is cancelled while
\* it waits for the IAM collaborator, the session the next method finds
\* equals the session before the cancelled call.
C27_CancelKeepsSession ==
    (pc = "done" /\ result = Cancelled) => session = pre.session

\* C28 (as claimed): for every Strand function name, run returns a result or
\* an RpcError; taking the four-byte prefix never aborts the handler.
C28_RunNeverAborts ==
    (pc = "done" /\ last.handler = "run" /\ RunArg(1).t = "Strand")
    => result.t # "Panic"

Binds(h) ==
    IF h = "kill" THEN {"id"}
    ELSE IF h = "live" THEN {"tb"}
    ELSE IF h \in {"select", "delete"} THEN {"what"}
    ELSE IF h = "relate" THEN {"from", "kind", "to", "data"}
    ELSE {"what", "data"}
ArgBound(h, k) ==
    IF k \in {"id", "tb", "what", "from"} THEN RunArg(1)
    ELSE IF k = "kind" THEN RunArg(2)
    ELSE IF k = "to" THEN RunArg(3)
    ELSE IF h = "relate" THEN RunArg(4)
    ELSE RunArg(2)

\* C29: in kill, live and the record handlers, each parameter the handler
\* binds reaches the storage engine with the value of the call's argument
\* (a bare string naming a table passed as that table), also when a session
\* variable of that name is stored; every other session variable is passed
\* on as stored, and nothing else is.
C29_BoundParametersWin ==
    Ran(BindMethods)
    => LET h == last.handler
           passed == calls[1].vars[1]
       IN /\ DOMAIN passed = Binds(h) \cup DOMAIN pre.vars
          /\ \A k \in Binds(h) :
                passed[k] = IF k \in {"tb", "what", "kind"}
                            THEN (IF ArgBound(h, k).t = "Strand"
                                  THEN VTable(ArgBound(h, k).v) ELSE ArgBound(h, k))
                            ELSE ArgBound(h, k)
          /\ \A k \in DOMAIN pre.vars \ Binds(h) : passed[k] = pre.vars[k]
C29_Witness ==
    /\ Ran({"relate"})
    /\ last.params = <<VThing("r1"), VStrand("x"), VThing("r2"), VObject("oa")>>
    /\ pre.vars = [k \in StoredNames |-> VNumber("2")]
    /\ calls[1].vars[1]["from"] = VThing("r1")
    /\ calls[1].vars[1]["kind"] = VTable("x")
    /\ calls[1].vars[1]["data"] = VObject("oa")
    /\ calls[1].vars[1]["a"] = VNumber("2")

\* parse_inner_subquery_or_coordinate has returned a value for a stream that
\* starts with `(`.
AfterParen == entry = "parse_inner_subquery_or_coordinate" /\ parser.ok

\* The `)` that closes the `(` the stream starts with: the first `)` with as
\* many `(` as `)` between the two.
Between(j, tok) == Cardinality({k \in 2..(j - 1) : tokens[k] = tok})
Closers == {j \in 2..Len(tokens) : tokens[j] = ")" /\ Between(j, "(") = Between(j, ")")}
Closer == CHOOSE j \in Closers : \A k \in Closers : j <= k

\* C25: parse_inner_subquery_or_coordinate, entered after `(`, when it
\* succeeds: a first token among RETURN, SELECT, CREATE, UPSERT, UPDATE,
\* DELETE, RELATE, DEFINE, REMOVE, REBUILD gives the subquery of that
\* statement; a number followed by `,` gives the point of the two numbers;
\* any other start gives Subquery::Value; and the parser stands right after
\* the `)` that matches the `(`.
C25_SubqueryOrCoordinateStateMachine ==
    AfterParen
    => LET first == TokenKind(tokens[2]) IN
       /\ first = "RETURN" => parser.v.t = "Subquery" /\ parser.v.kind = "Output"
       /\ first = "SELECT" => parser.v.t = "Subquery" /\ parser.v.kind = "Select"
       /\ first = "CREATE" => parser.v.t = "Subquery" /\ parser.v.kind = "Create"
       /\ first = "UPSERT" => parser.v.t = "Subquery" /\ parser.v.kind = "Upsert"
       /\ first = "UPDATE" => parser.v.t = "Subquery" /\ parser.v.kind = "Update"
       /\ first = "DELETE" => parser.v.t = "Subquery" /\ parser.v.kind = "Delete"
       /\ first = "RELATE" => parser.v.t = "Subquery" /\ parser.v.kind = "Relate"
       /\ first = "DEFINE" => parser.v.t = "Subquery" /\ parser.v.kind = "Define"
       /\ first = "REMOVE" => parser.v.t = "Subquery" /\ parser.v.kind = "Remove"
       /\ first = "REBUILD" => parser.v.t = "Subquery" /\ parser.v.kind = "Rebuild"
       /\ (first = "Number" /\ tokens[3] = ",")
          => parser.v = [t |-> "Point", x |-> tokens[2], y |-> tokens[4]]
       /\ (first \notin StatementKeywords /\ ~(first = "Number" /\ tokens[3] = ","))
          => parser.v.t = "Subquery" /\ parser.v.kind = "Value"
       /\ Closers # {}
       /\ parser.pos = Closer + 1
C25_Witness ==
    /\ AfterParen
    /\ tokens = <<"(", "UPSERT", "foo", ")">>
    /\ parser.v.kind = "Upsert"
    /\ parser.pos = 5

\* The value of a parse was printed, and the printed text has been parsed.
Reparsed == original # None /\ entry = "parse_value_field"
\* The forms whose text is kept: subquery (IF/ELSE among them), mock, regex
\* and param.
TextKept(v) == v.t \in {"Subquery", "Mock", "Regex", "Param"}
\* A statement written as a value without parentheses around it.
BareStatement(text) == TokenKind(text[1]) \in StatementKeywords

Keywords(text) == {i \in DOMAIN text : TokenKind(text[i]) \in StatementKeywords}

Transformed == error # None /\ Len(applied) >= 2
\* The error as it was converted, before any transform: an err::Error that
\* was raised as such, or what a library's error was converted to.
Converted == IF raised[1].lib = "core" THEN raised[1].e ELSE From(raised[1])

\* C21: set_check_from_coerce(name) turns CoerceTo{from, into} into
\* SetCheck{name, value: from.to_string(), check: into}, and
\* function_check_from_coerce(name) into FunctionCheck{name, value:
\* from.to_string(), check: into}; any other variant is returned unchanged,
\* so after the first transform no further transform changes the error.
C21_CheckFromCoerce ==
    Transformed
    => LET e == Converted
           first == applied[2]
       IN IF e.t = "CoerceTo"
          THEN error[1] = [t |-> IF first.op = "set" THEN "SetCheck" ELSE "FunctionCheck",
                           name |-> first.name,
                           value |-> ValueText(e.from),
                           check |-> e.into]
          ELSE error[1] = e
C21_Witness ==
    /\ Transformed
    /\ raised[1] = [lib |-> "core", e |-> CoerceTo(VStrand("x"), "int")]
    /\ applied = <<[op |-> "from", name |-> ""], [op |-> "set", name |-> "x"],
                   [op |-> "function", name |-> "y"]>>
    /\ error[1] = SetCheck("x", <<"'", "x", "'">>, "int")

\* C22: every Base64 decode error and every JWT error converts to
\* InvalidAuth, and the string the client sees is the same whatever the
\* error was.
C22_AuthErrorsCollapse ==
    (error # None /\ raised[1].lib \in {"base64", "jsonwebtoken"})
    => /\ error[1] = InvalidAuth
       /\ Serialize(error[1]) = <<"There was a problem with authentication">>
C22_Witness ==
    /\ error # None
    /\ raised[1] = Foreign("base64", "InvalidLength", "", "invalid length")
    /\ error[1] = InvalidAuth
    /\ applied = <<[op |-> "from", name |-> ""]>>

\* A backend has reported a duplicate key, and the error has been converted.
DuplicateKey ==
    /\ error # None /\ Len(applied) = 1
    /\ raised[1].lib \in Backends
    /\ raised[1].kind = DuplicateKind(raised[1].lib)

\* C23 (as claimed): for every backend with an error conversion, a duplicate
\* key error converts to TxKeyAlreadyExists, never to Tx(msg) or Ds(msg).
C23_DuplicateKeyEveryBackend == DuplicateKey => error[1] = TxKeyAlreadyExists

====
